---- MODULE Spec2Model ----
(***************************************************************************)
(* VideoClipper: the background marker (middle-click -> .marks ledger) and *)
(* the clip generator (.marks -> segments), modelled from the sources in   *)
(* src/background_marker and src/clip_generator.                           *)
(*                                                                         *)
(* Text is a sequence of one-character strings, except that the words the  *)
(* code writes or compares as a whole ("start", "end", "UNKNOWN") are one  *)
(* token each.  A file is the text of its content; a missing file reads    *)
(* like an empty one in every marker function (marker.py 86-87, utils.py   *)
(* 118-119).                                                               *)
(***************************************************************************)
EXTENDS Integers, Sequences, FiniteSets, TLC

\* ---------------------------------------------------------------- bounds
\* Number of mouse events delivered to the listener in one run.
MaxEvents == 2

\* ------------------------------------------------------------ text tools
LF == "\n"
SP == " "
COMMA == ","

\* Python's None for an Optional[str].
NoneText == <<"<None>">>

IsSpace(c) == c \in {SP, LF}

\* str.strip(): leading and trailing whitespace removed.
RECURSIVE LStrip(_)
LStrip(s) == IF s # <<>> /\ IsSpace(Head(s)) THEN LStrip(Tail(s)) ELSE s

RECURSIVE RStrip(_)
RStrip(s) ==
    IF s # <<>> /\ IsSpace(s[Len(s)]) THEN RStrip(SubSeq(s, 1, Len(s) - 1)) ELSE s

Strip(s) == RStrip(LStrip(s))

\* Index of the first occurrence of token c in s, 0 when there is none.
IndexOf(s, c) ==
    IF \E i \in 1..Len(s) : s[i] = c
    THEN CHOOSE i \in 1..Len(s) : s[i] = c /\ \A j \in 1..(i - 1) : s[j] # c
    ELSE 0

\* The lines of a file as Python iterates them (for line in f, readlines()):
\* each ends at a line feed, and a non-empty unterminated tail is a line too.
\* The line feed itself is left out; every reader strips it.
RECURSIVE FileLines(_)
FileLines(f) ==
    IF f = <<>> THEN <<>>
    ELSE LET i == IndexOf(f, LF) IN
         IF i = 0 THEN <<f>>
         ELSE <<SubSeq(f, 1, i - 1)>> \o FileLines(SubSeq(f, i + 1, Len(f)))

\* ------------------------------------------------- IEEE-754 double sums
\* total_wait is a Python float.  A double in [0, 4) that is a multiple of
\* 2^-54 is held as hi * 2^28 + lo (in units of 2^-54); addition rounds the
\* exact sum to 53 significant bits, ties to even.
FBase == 268435456

FZero == [hi |-> 0, lo |-> 0]

\* Quantum (unit in the last place, in units of 2^-54) of a sum whose high
\* part is hi: 8 in [2, 4), 4 in [1, 2), 2 in [0.5, 1), 1 below.
FQuantum(hi) ==
    IF hi >= 134217728 THEN 8
    ELSE IF hi >= 67108864 THEN 4
    ELSE IF hi >= 33554432 THEN 2 ELSE 1

FAdd(a, b) ==
    LET lo0   == a.lo + b.lo
        hi0   == a.hi + b.hi + (lo0 \div FBase)
        lo1   == lo0 % FBase
        q     == FQuantum(hi0)
        r     == lo1 % q
        down  == lo1 - r
        up    == IF 2 * r > q THEN TRUE
                 ELSE IF 2 * r < q THEN FALSE
                 ELSE (down \div q) % 2 = 1
        lo2   == IF up THEN down + q ELSE down
    IN  [hi |-> hi0 + (lo2 \div FBase), lo |-> lo2 % FBase]

FLe(a, b) == a.hi < b.hi \/ (a.hi = b.hi /\ a.lo <= b.lo)

\* --------------------------------------------------- marker.py constants
\* 1.0, 0.2 and 3.0 as doubles.
CLIPBOARD_INITIAL_DELAY_SEC == [hi |-> 67108864, lo |-> 0]
CLIPBOARD_RETRY_INTERVAL_SEC == [hi |-> 13421772, lo |-> 214748365]
CLIPBOARD_MAX_WAIT_SEC == [hi |-> 201326592, lo |-> 0]

POTPLAYER_CLASS_KEYWORD == "PotPlayer"

UNKNOWN == <<"UNKNOWN">>

\* Python's None in _line_counts (a count is never negative).
NoneCount == -1

\* ------------------------------------------------------- the environment
\* Recording identifiers (video basenames) and the window titles giving them.
Recordings == {"A", "unknown_video"}

\* What win32gui can report for the foreground window: hwnd 0 is "no
\* foreground window" (also the result of a failed query), a title is a
\* file name as <<stem, extension>> or empty, a class name is a text.
Foregrounds ==
    { [hwnd |-> 0, title |-> <<>>, class_name |-> <<>>],
      [hwnd |-> 1, title |-> <<"A", ".ts">>, class_name |-> <<"PotPlayer", "64">>],
      [hwnd |-> 1, title |-> <<>>, class_name |-> <<"PotPlayer", "64">>],
      [hwnd |-> 2, title |-> <<"A", ".ts">>, class_name |-> <<"Notepad">>] }

\* What the clipboard can hold when it is read: nothing usable (no text, or
\* the read failed), or a text as PotPlayer or the user put it there.
ClipData ==
    { NoneText, <<SP>>, <<"7">>, <<"9", LF>>, <<"7", COMMA, "9">>, <<"7", LF, "9">>,
      <<COMMA, "9">> }

Buttons == {"middle", "left"}

\* Ledger contents a recording can have when the marker starts.
InitLedgers ==
    { <<>>,
      <<"7", COMMA, SP, "start", LF>>,
      <<"7", COMMA, SP, "start", LF, LF>>,
      <<"7", COMMA, SP, "start", LF, "9", COMMA, SP, "end", LF>>,
      <<"7", COMMA, SP, "start">> }

\* ----------------------------------------------------------- utils.py
\* get_clipboard_text: the stripped text, None when absent or empty.
get_clipboard_text(data) ==
    IF data = NoneText THEN NoneText
    ELSE LET text == Strip(data) IN IF text # <<>> THEN text ELSE NoneText

\* extract_video_basename_from_title: stripped, extension removed.
extract_video_basename_from_title(title) ==
    IF title = <<>> THEN ""
    ELSE LET t == Strip(title) IN IF t = <<>> THEN "" ELSE t[1]

\* get_file_line_count: the number of lines, 0 when the file is missing or
\* cannot be read (readOk = FALSE).
get_file_line_count(file, readOk) ==
    IF file = <<>> THEN 0
    ELSE IF readOk THEN Len(FileLines(file)) ELSE 0

\* The line append_mark_line writes: "<timestamp>, <tag>\n".
MarkLine(timestamp, tag) == timestamp \o <<COMMA, SP, tag, LF>>

\* Mutant: the line is written twice.
append_mark_line_twice(file, timestamp, tag) ==
    file \o MarkLine(timestamp, tag) \o MarkLine(timestamp, tag)

\* Mutant: the file is opened with "w" and rewritten.
append_mark_line_rewrite(file, timestamp, tag) == MarkLine(timestamp, tag)

\* Mutant: the line is written "<tag>, <timestamp>".
append_mark_line_TagFirst(file, timestamp, tag) ==
    file \o <<tag, COMMA, SP>> \o timestamp \o <<LF>>

\* append_mark_line: the file opened with "a", one line written.
append_mark_line(file, timestamp, tag) == file \o MarkLine(timestamp, tag)

\* ----------------------------------------------------------- marker.py
\* parts[0] of line.split(",", 1), stripped.
FirstField(line) ==
    LET i == IndexOf(line, COMMA) IN
    Strip(IF i = 0 THEN line ELSE SubSeq(line, 1, i - 1))

\* Mutant: the lines are scanned from the head of the file.
RECURSIVE LastTimestampOf_FromHead(_)
LastTimestampOf_FromHead(lines) ==
    IF lines = <<>> THEN NoneText
    ELSE IF Strip(Head(lines)) = <<>> THEN LastTimestampOf_FromHead(Tail(lines))
    ELSE IF FirstField(Strip(Head(lines))) # <<>> THEN FirstField(Strip(Head(lines)))
    ELSE LastTimestampOf_FromHead(Tail(lines))

\* The loop of _get_last_mark_timestamp over reversed(lines).
RECURSIVE LastTimestampOf(_)
LastTimestampOf(lines) ==
    IF lines = <<>> THEN NoneText
    ELSE LET line == Strip(lines[Len(lines)])
             rest == SubSeq(lines, 1, Len(lines) - 1)
         IN  IF line = <<>> THEN LastTimestampOf(rest)
             ELSE IF FirstField(line) # <<>> THEN FirstField(line)
             ELSE LastTimestampOf(rest)

_get_last_mark_timestamp(file, readOk) ==
    IF file = <<>> THEN NoneText
    ELSE IF ~readOk THEN NoneText
    ELSE LastTimestampOf(FileLines(file))

\* The tag without the parity of the count.
TagFor_AlwaysStart(line_count) == "start"

TagFor(line_count) == IF line_count % 2 = 0 THEN "start" ELSE "end"

\* ------------------------------------------- clip_generator: timestamps
\* Seconds are held in milliseconds (core.py 221 works at sec * 1000); the
\* texts of the model carry at most three fractional digits.
MsPerSec == 1000

Digits == <<"0", "1", "2", "3", "4", "5", "6", "7", "8", "9">>

IsDigit(c) == IndexOf(Digits, c) # 0

IsDigits(s) == s # <<>> /\ \A i \in 1..Len(s) : IsDigit(s[i])

RECURSIVE DigitsValue(_)
DigitsValue(s) ==
    IF s = <<>> THEN 0
    ELSE DigitsValue(SubSeq(s, 1, Len(s) - 1)) * 10 + (IndexOf(Digits, s[Len(s)]) - 1)

\* s.split(sep): the pieces between the separators.
RECURSIVE Split(_, _)
Split(s, sep) ==
    LET i == IndexOf(s, sep) IN
    IF i = 0 THEN <<s>>
    ELSE <<SubSeq(s, 1, i - 1)>> \o Split(SubSeq(s, i + 1, Len(s)), sep)

\* A number text without its sign.
Unsigned(t) == IF t # <<>> /\ t[1] = "-" THEN Tail(t) ELSE t

Sign(t) == IF t # <<>> /\ t[1] = "-" THEN -1 ELSE 1

\* A number, or the ValueError raised in its place.
Num(v) == [ok |-> TRUE, val |-> v]

BadNum == [ok |-> FALSE, val |-> 0]

\* int(text) of a text without surrounding whitespace.
IntOf(t) ==
    IF IsDigits(Unsigned(t)) THEN Num(Sign(t) * DigitsValue(Unsigned(t))) ELSE BadNum

\* int(text): ok is FALSE where Python raises ValueError.
ParseInt(text) == IntOf(Strip(text))

\* The fractional digits of a float text, in milliseconds.
FracMs(fp) == DigitsValue(SubSeq(fp \o <<"0", "0", "0">>, 1, 3))

\* The value of a float text from its sign, integer digits and fractional
\* digits; one of the two digit runs may be empty, not both.
FloatOfParts(sign, ip, fp) ==
    IF /\ ip = <<>> \/ IsDigits(ip)
       /\ fp = <<>> \/ IsDigits(fp)
       /\ ip # <<>> \/ fp # <<>>
    THEN Num(sign * (DigitsValue(ip) * MsPerSec + FracMs(fp)))
    ELSE BadNum

\* The unsigned text u of a float, cut at its decimal point (position i, 0
\* when there is none).
FloatOfUnsigned(sign, u, i) ==
    IF i = 0 THEN FloatOfParts(sign, u, <<>>)
    ELSE FloatOfParts(sign, SubSeq(u, 1, i - 1), SubSeq(u, i + 1, Len(u)))

FloatOf(t) == FloatOfUnsigned(Sign(t), Unsigned(t), IndexOf(Unsigned(t), "."))

\* float(text), in milliseconds: digits with at most one decimal point.
ParseFloat(text) == FloatOf(Strip(text))

SecondsPerMinute == 60
SecondsPerHour == 3600

\* The branch "SS" of _parse_timestamp_to_seconds.
SecondsSS(s) ==
    IF ~s.ok \/ s.val < 0 THEN BadNum ELSE Num(s.val)

\* The branch "MM:SS" with no upper bound on the minutes.
SecondsMMSS_AnyMinutes(m, s) ==
    IF ~m.ok \/ ~s.ok THEN BadNum
    ELSE IF m.val < 0 \/ s.val < 0 \/ s.val >= 60 * MsPerSec THEN BadNum
    ELSE Num(m.val * SecondsPerMinute * MsPerSec + s.val)

\* The branch "MM:SS".
SecondsMMSS(m, s) ==
    IF ~m.ok \/ ~s.ok THEN BadNum
    ELSE IF m.val < 0 \/ m.val >= 60 \/ s.val < 0 \/ s.val >= 60 * MsPerSec THEN BadNum
    ELSE Num(m.val * SecondsPerMinute * MsPerSec + s.val)

\* The branch "HH:MM:SS".
SecondsHHMMSS(h, m, s) ==
    IF ~h.ok \/ ~m.ok \/ ~s.ok THEN BadNum
    ELSE IF h.val < 0 \/ m.val < 0 \/ m.val >= 60 \/ s.val < 0 \/ s.val >= 60 * MsPerSec
    THEN BadNum
    ELSE Num(h.val * SecondsPerHour * MsPerSec + m.val * SecondsPerMinute * MsPerSec + s.val)

SecondsOfParts(parts) ==
    IF Len(parts) = 1 THEN SecondsSS(ParseFloat(parts[1]))
    ELSE IF Len(parts) = 2 THEN SecondsMMSS(ParseInt(parts[1]), ParseFloat(parts[2]))
    ELSE IF Len(parts) = 3
    THEN SecondsHHMMSS(ParseInt(parts[1]), ParseInt(parts[2]), ParseFloat(parts[3]))
    ELSE BadNum

SecondsOfStripped(ts) == IF ts = <<>> THEN BadNum ELSE SecondsOfParts(Split(ts, ":"))

\* _parse_timestamp_to_seconds (core.py and generate_clips.py are the same
\* text): ok is FALSE where it raises ValueError.
_parse_timestamp_to_seconds(text) == SecondsOfStripped(Strip(text))

\* ------------------------------------------ clip_generator: .marks files
\* str.lower() on the tag words of the model.
LowerTok(c) ==
    IF c \in {"START", "Start"} THEN "start"
    ELSE IF c \in {"END", "End"} THEN "end" ELSE c

Lower(s) == [i \in 1..Len(s) |-> LowerTok(s[i])]

\* A result of a parsing stage: a value, or the error raised (its kind and
\* the line numbers or pair index its message names).
Okay(v) == [ok |-> TRUE, value |-> v, error |-> "", at |-> <<>>]

Fail(kind, at) == [ok |-> FALSE, value |-> <<>>, error |-> kind, at |-> at]

\* The least index at which a result of the sequence is an error, 0 if none:
\* a loop that raises stops at the first one.
FirstFailure(results) ==
    IF \E k \in 1..Len(results) : ~results[k].ok
    THEN CHOOSE k \in 1..Len(results) :
            ~results[k].ok /\ \A j \in 1..(k - 1) : results[j].ok
    ELSE 0

\* What the results of the passes of a loop amount to: the first error
\* raised, or the list of the values.
Collect(results) ==
    IF FirstFailure(results) # 0 THEN results[FirstFailure(results)]
    ELSE Okay([k \in 1..Len(results) |-> results[k].value])

\* One non-blank stripped line raw of the file, cut at its first comma
\* (position i, 0 when it has none): the entry, or the exception raised.
EntryOfFields(idx, i, ts, tag) ==
    IF i = 0 THEN Fail("MissingComma", <<idx>>)
    ELSE IF tag \notin {<<"start">>, <<"end">>} THEN Fail("InvalidTag", <<idx>>)
    ELSE Okay([line_no |-> idx, timestamp_raw |-> ts, tag |-> tag[1]])

EntryOfCut(idx, raw, i) ==
    EntryOfFields(idx, i, Strip(SubSeq(raw, 1, i - 1)),
                  Lower(Strip(SubSeq(raw, i + 1, Len(raw)))))

EntryOf(idx, raw) == EntryOfCut(idx, raw, IndexOf(raw, COMMA))

\* The numbers of the lines that are not blank, in order.
NonBlankLines(lines) ==
    LET keep == {i \in 1..Len(lines) : Strip(lines[i]) # <<>>} IN
    [k \in 1..Cardinality(keep) |->
        CHOOSE i \in keep : Cardinality({j \in keep : j < i}) = k - 1]

\* The reading loop of _parse_marks_file: an entry per non-blank line, up to
\* the first line that raises.
EntriesOfLines(lines, numbers) ==
    [k \in 1..Len(numbers) |-> EntryOf(numbers[k], Strip(lines[numbers[k]]))]

ReadEntries(lines) == Collect(EntriesOfLines(lines, NonBlankLines(lines)))

\* The order check of _parse_marks_file: the first pair that is not
\* (start, end) raises.
OrderOfPair(e1, e2) ==
    IF e1.tag # "start" \/ e2.tag # "end"
    THEN Fail("OutOfOrder", <<e1.line_no, e2.line_no>>)
    ELSE Okay(<<e1, e2>>)

\* Mutant: the order of the tags is not checked.
CheckOrder_None(entries) == Okay(entries)

CheckOrder(entries) ==
    LET checked == Collect([k \in 1..(Len(entries) \div 2) |->
                              OrderOfPair(entries[2 * k - 1], entries[2 * k])])
    IN  IF checked.ok THEN Okay(entries) ELSE checked

\* Mutant: the test of the parity is left out.
CheckEntries_NoParity(entries) ==
    IF Len(entries) = 0 THEN Fail("EmptyLedger", <<>>)
    ELSE CheckOrder(entries)

CheckEntries(entries) ==
    IF Len(entries) = 0 THEN Fail("EmptyLedger", <<>>)
    ELSE IF Len(entries) % 2 # 0 THEN Fail("UnpairedEntries", <<Len(entries)>>)
    ELSE CheckOrder(entries)

CheckRead(read) == IF ~read.ok THEN read ELSE CheckEntries(read.value)

\* _parse_marks_file (core.py and generate_clips.py are the same text).
_parse_marks_file(file) == CheckRead(ReadEntries(FileLines(file)))

\* Mutant: the comparison of the duration check is turned around.
PairCheck_Reversed(pair_index, s, e) ==
    IF ~s.ok \/ ~e.ok THEN Fail("InvalidTimestamp", <<pair_index>>)
    ELSE IF s.val <= e.val THEN Fail("NonPositiveDuration", <<pair_index>>)
    ELSE Okay(<<s.val, e.val>>)

\* Mutant: a start equal to the end passes.
PairCheck_NonStrict(pair_index, s, e) ==
    IF ~s.ok \/ ~e.ok THEN Fail("InvalidTimestamp", <<pair_index>>)
    ELSE IF s.val > e.val THEN Fail("NonPositiveDuration", <<pair_index>>)
    ELSE Okay(<<s.val, e.val>>)

\* The seconds of one pair from its two parsed timestamps, or the error of
\* the first check that fails.
PairCheck(pair_index, s, e) ==
    IF ~s.ok \/ ~e.ok THEN Fail("InvalidTimestamp", <<pair_index>>)
    ELSE IF s.val >= e.val THEN Fail("NonPositiveDuration", <<pair_index>>)
    ELSE Okay(<<s.val, e.val>>)

PairSeconds(pair_index, ts_start, ts_end) ==
    PairCheck(pair_index, _parse_timestamp_to_seconds(ts_start),
              _parse_timestamp_to_seconds(ts_end))

\* One pass of the loop of core._build_segments_from_entries: the segment of
\* a pair whose seconds are sec, or the exception raised.
CoreSegment(start_entry, end_entry, pair_index, sec) ==
    IF start_entry.timestamp_raw = UNKNOWN \/ end_entry.timestamp_raw = UNKNOWN
    THEN Fail("UnknownTimestamp", <<pair_index>>)
    ELSE IF ~sec.ok THEN sec
    ELSE Okay([pair_index |-> pair_index,
               start_line |-> start_entry.line_no, end_line |-> end_entry.line_no,
               start_str |-> start_entry.timestamp_raw,
               end_str |-> end_entry.timestamp_raw,
               start_sec |-> sec.value[1], end_sec |-> sec.value[2]])

CorePair(start_entry, end_entry, pair_index) ==
    CoreSegment(start_entry, end_entry, pair_index,
                PairSeconds(pair_index, start_entry.timestamp_raw,
                            end_entry.timestamp_raw))

\* The values of the results before the n-th (all of them when n = 0).
ValuesBefore(results, n) ==
    [k \in 1..(IF n = 0 THEN Len(results) ELSE n - 1) |-> results[k].value]

\* Mutant: the pairing stops at the first pair that fails a check and
\* returns the segments before it.
core_build_UpToFailure(entries) ==
    Okay(ValuesBefore([k \in 1..(Len(entries) \div 2) |->
                          CorePair(entries[2 * k - 1], entries[2 * k], k)],
                      FirstFailure([k \in 1..(Len(entries) \div 2) |->
                          CorePair(entries[2 * k - 1], entries[2 * k], k)])))

core_build_segments_from_entries(entries) ==
    Collect([k \in 1..(Len(entries) \div 2) |->
                CorePair(entries[2 * k - 1], entries[2 * k], k)])

\* generate_clips._build_segments_from_entries: the loop from entry i on;
\* the value is <<valid_segments, skipped_unknown>>.
RECURSIVE CliBuild(_, _, _, _)
CliBuild(entries, i, valid, skipped) ==
    IF i > Len(entries) THEN <<valid, skipped>>
    ELSE LET pair_index == (i + 1) \div 2
             ts_start == entries[i].timestamp_raw
             ts_end == entries[i + 1].timestamp_raw
         IN  IF ts_start = UNKNOWN \/ ts_end = UNKNOWN
             THEN CliBuild(entries, i + 2, valid,
                     Append(skipped,
                        [pair_index |-> pair_index,
                         start_line |-> entries[i].line_no,
                         end_line |-> entries[i + 1].line_no,
                         timestamp_start |-> ts_start,
                         timestamp_end |-> ts_end]))
             ELSE CliBuild(entries, i + 2,
                     Append(valid,
                        [pair_index |-> pair_index,
                         start_line |-> entries[i].line_no,
                         end_line |-> entries[i + 1].line_no,
                         start_str |-> ts_start, end_str |-> ts_end,
                         start_sec |-> 0, end_sec |-> 0]),
                     skipped)

\* Mutant: no test for UNKNOWN, every pair is a valid segment.
cli_build_keep_unknown(entries) ==
    << [k \in 1..(Len(entries) \div 2) |->
          [pair_index |-> k,
           start_line |-> entries[2 * k - 1].line_no,
           end_line |-> entries[2 * k].line_no,
           start_str |-> entries[2 * k - 1].timestamp_raw,
           end_str |-> entries[2 * k].timestamp_raw,
           start_sec |-> 0, end_sec |-> 0]],
       <<>> >>

cli_build_segments_from_entries(entries) == CliBuild(entries, 1, <<>>, <<>>)

\* One pass of the loop of generate_clips._convert_segments_to_seconds.
CliConverted(seg, sec) ==
    IF ~sec.ok THEN sec
    ELSE Okay([seg EXCEPT !.start_sec = sec.value[1], !.end_sec = sec.value[2]])

CliConvertOne(seg) ==
    CliConverted(seg, PairSeconds(seg.pair_index, seg.start_str, seg.end_str))

\* Mutant: the conversion stops at the first pair that fails a check and
\* returns the segments before it.
convert_segments_UpToFailure(segments) ==
    Okay(ValuesBefore([k \in 1..Len(segments) |-> CliConvertOne(segments[k])],
                      FirstFailure([k \in 1..Len(segments) |-> CliConvertOne(segments[k])])))

_convert_segments_to_seconds(segments) ==
    Collect([k \in 1..Len(segments) |-> CliConvertOne(segments[k])])

\* ------------------------------------------------------- alignment.py
\* _run_ffprobe_for_keyframes: subprocess.run raises (FileNotFoundError, which
\* the function does not catch) when the ffprobe executable cannot be
\* started; no keyframes when ffprobe exits with a non-zero code; otherwise
\* the numeric lines of its output, sorted.
RECURSIVE NumericLines(_)
NumericLines(lines) ==
    IF lines = <<>> THEN <<>>
    ELSE LET line == Strip(Head(lines))
             t == ParseFloat(line)
         IN  IF line = <<>> \/ ~t.ok THEN NumericLines(Tail(lines))
             ELSE <<t.val>> \o NumericLines(Tail(lines))

\* _run_ffprobe_for_keyframes without its except clause.
run_ffprobe_Uncaught(ffprobe) ==
    IF ~ffprobe.started THEN Fail("FileNotFoundError", <<>>)
    ELSE IF ffprobe.returncode # 0 THEN Fail("CalledProcessError", <<>>)
    ELSE Okay(SortSeq(NumericLines(ffprobe.stdout), LAMBDA a, b : a < b))

_run_ffprobe_for_keyframes(ffprobe) ==
    IF ~ffprobe.started THEN Fail("FileNotFoundError", <<>>)
    ELSE IF ffprobe.returncode # 0 THEN Okay(<<>>)
    ELSE Okay(SortSeq(NumericLines(ffprobe.stdout), LAMBDA a, b : a < b))

\* bisect_left stepping over the elements equal to v.
bisect_left_PastEqual(a, v) == Cardinality({i \in 1..Len(a) : a[i] <= v})

\* bisect_left and bisect_right on a sorted list.
bisect_left(a, v) == Cardinality({i \in 1..Len(a) : a[i] < v})

bisect_right(a, v) == Cardinality({i \in 1..Len(a) : a[i] <= v})

\* _align_single_segment_with_keyframes taking equal aligned boundaries for
\* a usable segment.
AlignSingle_AcceptEqual(start_sec, end_sec, keyframes) ==
    IF keyframes = <<>> \/ start_sec >= end_sec THEN <<start_sec, end_sec, FALSE>>
    ELSE LET idx_start == bisect_left(keyframes, start_sec)
             start_aligned == IF idx_start >= Len(keyframes)
                              THEN keyframes[Len(keyframes)]
                              ELSE keyframes[idx_start + 1]
             idx_end == bisect_right(keyframes, end_sec) - 1
             end_aligned == IF idx_end < 0 THEN keyframes[1] ELSE keyframes[idx_end + 1]
         IN  IF start_aligned > end_aligned THEN <<start_sec, end_sec, FALSE>>
             ELSE <<start_aligned, end_aligned, TRUE>>

\* Mutant: the start goes to the last keyframe at or before it.
AlignSingle_StartBackward(start_sec, end_sec, keyframes) ==
    IF keyframes = <<>> \/ start_sec >= end_sec THEN <<start_sec, end_sec, FALSE>>
    ELSE LET idx_start == bisect_right(keyframes, start_sec) - 1
             start_aligned == IF idx_start < 0 THEN keyframes[1]
                              ELSE keyframes[idx_start + 1]
             idx_end == bisect_right(keyframes, end_sec) - 1
             end_aligned == IF idx_end < 0 THEN keyframes[1] ELSE keyframes[idx_end + 1]
         IN  IF start_aligned >= end_aligned THEN <<start_sec, end_sec, FALSE>>
             ELSE <<start_aligned, end_aligned, TRUE>>

\* _align_single_segment_with_keyframes: <<start_final, end_final, used>>.
\* Python's index idx is position idx + 1 here.
_align_single_segment_with_keyframes(start_sec, end_sec, keyframes) ==
    IF keyframes = <<>> \/ start_sec >= end_sec THEN <<start_sec, end_sec, FALSE>>
    ELSE LET idx_start == bisect_left(keyframes, start_sec)
             start_aligned == IF idx_start >= Len(keyframes)
                              THEN keyframes[Len(keyframes)]
                              ELSE keyframes[idx_start + 1]
             idx_end == bisect_right(keyframes, end_sec) - 1
             end_aligned == IF idx_end < 0 THEN keyframes[1] ELSE keyframes[idx_end + 1]
         IN  IF start_aligned >= end_aligned THEN <<start_sec, end_sec, FALSE>>
             ELSE <<start_aligned, end_aligned, TRUE>>

\* A segment with the four fields alignment adds.
Aligned(seg, start_final, end_final, used, note) ==
    [pair_index |-> seg.pair_index, start_line |-> seg.start_line,
     end_line |-> seg.end_line, start_str |-> seg.start_str, end_str |-> seg.end_str,
     start_sec |-> seg.start_sec, end_sec |-> seg.end_sec,
     start_final |-> start_final, end_final |-> end_final,
     used_keyframe_alignment |-> used, alignment_note |-> note]

AlignOne(seg, keyframes) ==
    LET r == _align_single_segment_with_keyframes(seg.start_sec, seg.end_sec, keyframes) IN
    IF ~r[3]
    THEN Aligned(seg, seg.start_sec, seg.end_sec, FALSE, "alignment_degenerate_fallback")
    ELSE Aligned(seg, r[1], r[2], TRUE, "aligned_to_keyframe")

\* Mutant: one segment that cannot be aligned makes every segment of the
\* list fall back.
AlignWith_AllOrNone(segments, keyframes) ==
    IF ~keyframes.ok THEN keyframes
    ELSE IF keyframes.value = <<>>
    THEN Okay([k \in 1..Len(segments) |->
                Aligned(segments[k], segments[k].start_sec, segments[k].end_sec,
                        FALSE, "no_keyframe_info_fallback")])
    ELSE IF \E j \in 1..Len(segments) :
                ~AlignOne(segments[j], keyframes.value).used_keyframe_alignment
    THEN Okay([k \in 1..Len(segments) |->
                Aligned(segments[k], segments[k].start_sec, segments[k].end_sec,
                        FALSE, "alignment_degenerate_fallback")])
    ELSE Okay([k \in 1..Len(segments) |-> AlignOne(segments[k], keyframes.value)])

\* The part of align_segments_with_keyframes after the keyframes are read.
AlignWith(segments, keyframes) ==
    IF ~keyframes.ok THEN keyframes
    ELSE IF keyframes.value = <<>>
    THEN Okay([k \in 1..Len(segments) |->
                Aligned(segments[k], segments[k].start_sec, segments[k].end_sec,
                        FALSE, "no_keyframe_info_fallback")])
    ELSE Okay([k \in 1..Len(segments) |-> AlignOne(segments[k], keyframes.value)])

\* align_segments_with_keyframes taking every mode but "keyframe" for "none".
align_segments_AnyModeAsNone(segments, mode, ffprobe) ==
    IF mode # "keyframe"
    THEN Okay([k \in 1..Len(segments) |->
                Aligned(segments[k], segments[k].start_sec, segments[k].end_sec,
                        FALSE, "align_mode=none")])
    ELSE AlignWith(segments, _run_ffprobe_for_keyframes(ffprobe))

\* align_segments_with_keyframes reading the keyframes in mode "none" too.
align_segments_ReadingKeyframes(segments, mode, ffprobe) ==
    IF mode \notin {"none", "keyframe"} THEN Fail("UnsupportedMode", <<>>)
    ELSE AlignWith(segments, _run_ffprobe_for_keyframes(ffprobe))

\* align_segments_with_keyframes; ffprobe is what running the ffprobe
\* process for the video comes to (it is run in mode "keyframe" only).
align_segments_with_keyframes(segments, mode, ffprobe) ==
    IF mode = "none"
    THEN Okay([k \in 1..Len(segments) |->
                Aligned(segments[k], segments[k].start_sec, segments[k].end_sec,
                        FALSE, "align_mode=none")])
    ELSE IF mode # "keyframe" THEN Fail("UnsupportedMode", <<>>)
    ELSE AlignWith(segments, _run_ffprobe_for_keyframes(ffprobe))

\* ------------------------------------------------------------- core.py
ClipSegment(seg) ==
    [index |-> seg.pair_index, start_sec |-> seg.start_final, end_sec |-> seg.end_final,
     raw_start_str |-> seg.start_str, raw_end_str |-> seg.end_str,
     aligned_start_sec |-> seg.start_final, aligned_end_sec |-> seg.end_final,
     used_keyframe_alignment |-> seg.used_keyframe_alignment,
     alignment_note |-> seg.alignment_note]

\* The result list of load_segments_from_marks, sorted by index.
ClipSegments(aligned) ==
    SortSeq([k \in 1..Len(aligned) |-> ClipSegment(aligned[k])],
            LAMBDA a, b : a.index < b.index)

\* ----------------------------------------------- the clip generator's input
\* Lines a .marks file given to the clip generator is made of.
MaxLines == 4

LineChoices ==
    { <<"5", COMMA, SP, "start">>,
      <<"1", ":", "1", "0", COMMA, SP, "END">>,
      <<"UNKNOWN", COMMA, SP, "start">>,
      <<"5", COMMA, SP, "end">>,
      <<>>,
      <<"5">>,
      <<"x", COMMA, SP, "end">>,
      <<"5", COMMA, SP, "f", "o", "o">> }

RECURSIVE FilesOfLines(_)
FilesOfLines(n) ==
    IF n = 0 THEN {<<>>}
    ELSE {f \o l \o <<LF>> : f \in FilesOfLines(n - 1), l \in LineChoices}

MarksFiles == UNION {FilesOfLines(n) : n \in 0..MaxLines}

AlignModes == {"none", "keyframe"}

\* What running ffprobe comes to: the executable cannot be started, a
\* failure, an empty output, keyframes (out of order, with a line that is no
\* number).
Ran(returncode, stdout) == [started |-> TRUE, returncode |-> returncode, stdout |-> stdout]

NotStarted == [started |-> FALSE, returncode |-> 0, stdout |-> <<>>]

FfprobeAnswers ==
    { NotStarted,
      Ran(1, <<>>),
      Ran(0, <<>>),
      Ran(0, << <<"6", "0">>, <<"N", "/", "A">>, <<"6">> >>) }

VARIABLES
    ledger,            \* [Recordings -> text]: the .marks file of each recording
    line_counts,       \* MarkerState._line_counts: [Recordings -> count or NoneCount]
    ev,                \* the mouse events: position and locals of each one's handler
    listener_running,  \* the mouse.Listener thread is alive
    marks_file,        \* the .marks file given to the clip generator
    gui,               \* gui_app: what on_open_video made of it
    cli,               \* generate_clips: where main got to with it
    call               \* one call of a function of the clip generator

mvars == <<ledger, line_counts, ev, listener_running>>

gvars == <<marks_file, gui, cli, call>>

vars == <<ledger, line_counts, ev, listener_running, marks_file, gui, cli, call>>

Events == 1..MaxEvents

\* An event that has not happened yet / the locals of a handler not started.
EvNew ==
    [pc |-> "new", button |-> "none", pressed |-> FALSE, hwnd |-> 0, class_name |-> <<>>,
     video_basename |-> "", line_count |-> 0, tag |-> "",
     reference_timestamp |-> NoneText, timestamp |-> <<>>, total_wait |-> FZero,
     readings |-> <<>>, outcome |-> ""]

\* A finished event keeps what it was and did (the timestamp it appended
\* with), not its other locals.
EvDone(c, outcome) ==
    [EvNew EXCEPT !.pc = "done", !.button = c.button, !.pressed = c.pressed,
                  !.hwnd = c.hwnd, !.class_name = c.class_name,
                  !.video_basename = c.video_basename, !.line_count = c.line_count,
                  !.tag = c.tag, !.outcome = outcome,
                  !.timestamp = IF outcome = "appended" THEN c.timestamp ELSE <<>>]

GuiIdle ==
    [pc |-> "idle", entries |-> <<>>, segments |-> <<>>, error |-> "", at |-> <<>>]

CliIdle ==
    [pc |-> "idle", entries |-> <<>>, segments |-> <<>>, skipped_unknown |-> <<>>,
     error |-> "", at |-> <<>>, clip_index |-> 0, success_count |-> 0, fail_count |-> 0]

\* No function is called on its own.
NoCall == [pc |-> "none"]

InFlight(e) == ev[e].pc \notin {"new", "queued", "done"}

Init ==
    /\ \E f \in InitLedgers : ledger = [r \in Recordings |-> IF r = "A" THEN f ELSE <<>>]
    /\ line_counts = [r \in Recordings |-> NoneCount]
    /\ ev = [e \in Events |-> EvNew]
    /\ listener_running = TRUE
    /\ marks_file = <<>>
    /\ gui = GuiIdle
    /\ cli = CliIdle
    /\ call = NoCall

\* The user clicks or releases a mouse button: the event waits for the listener.
Click(e, button, pressed) ==
    /\ ev[e].pc = "new"
    /\ \A d \in Events : d < e => ev[d].pc # "new"
    /\ ev' = [ev EXCEPT ![e].pc = "queued", ![e].button = button, ![e].pressed = pressed]
    /\ UNCHANGED <<ledger, line_counts, listener_running, gvars>>

\* Mutant: every event gets a thread of its own.
ListenerReady_Concurrent(e) ==
    /\ listener_running
    /\ \A d \in Events : d < e => ev[d].pc # "queued"

\* main: one mouse.Listener thread calls handle_click for one event at a
\* time, in arrival order; a callback that is still running (sleeping in the
\* retry loop) keeps the next event waiting.
ListenerReady(e) ==
    /\ listener_running
    /\ \A d \in Events : ~InFlight(d)
    /\ \A d \in Events : d < e => ev[d].pc # "queued"

\* handle_click, up to the call of _handle_middle_click_event.
handle_click(e) ==
    /\ ev[e].pc = "queued"
    /\ ListenerReady(e)
    /\ ev' = [ev EXCEPT ![e] =
                IF ev[e].button # "middle" \/ ~ev[e].pressed
                THEN EvDone(ev[e], "ignored")
                ELSE [ev[e] EXCEPT !.pc = "foreground"]]
    /\ UNCHANGED <<ledger, line_counts, listener_running, gvars>>

\* Mutant: no try/except around the handler.
ExceptionEscapes == FALSE

\* The except clause of handle_click: the exception is logged and dropped,
\* the listener lives on.  (An exception that leaves the callback stops the
\* pynput listener.)
ExceptionCaught == TRUE

\* POTPLAYER_CLASS_KEYWORD in class_name.
IsTargetApp(class_name) == IndexOf(class_name, POTPLAYER_CLASS_KEYWORD) # 0

\* _handle_middle_click_event steps 1-2: foreground window, video basename.
GetForeground(e, fg) ==
    /\ ev[e].pc = "foreground"
    /\ LET c == [ev[e] EXCEPT !.hwnd = fg.hwnd, !.class_name = fg.class_name] IN
       ev' = [ev EXCEPT ![e] =
                IF fg.hwnd = 0 THEN EvDone(c, "ignored")
                ELSE IF ~IsTargetApp(fg.class_name) THEN EvDone(c, "ignored")
                ELSE LET name == extract_video_basename_from_title(fg.title) IN
                     [c EXCEPT !.pc = "count",
                         !.video_basename = IF name = "" THEN "unknown_video" ELSE name]]
    /\ UNCHANGED <<ledger, line_counts, listener_running, gvars>>

\* Mutant: no cache, the file is counted at every call.
_get_line_count_Reread(video_basename, readOk) ==
    get_file_line_count(ledger[video_basename], readOk)

\* _get_line_count: the cached count, or the file's line count on first use.
_get_line_count(video_basename, readOk) ==
    LET cached == line_counts[video_basename] IN
    IF cached # NoneCount THEN cached
    ELSE get_file_line_count(ledger[video_basename], readOk)

\* Steps 3-4: line count (cached from now on) and tag.
GetLineCount(e, readOk) ==
    /\ ev[e].pc = "count"
    /\ LET vb == ev[e].video_basename
           count == _get_line_count(vb, readOk)
       IN  /\ line_counts' = [line_counts EXCEPT ![vb] = count]
           /\ ev' = [ev EXCEPT ![e].pc = "reference", ![e].line_count = count,
                               ![e].tag = TagFor(count)]
    /\ UNCHANGED <<ledger, listener_running, gvars>>

\* Step 5: the reference timestamp, the last mark's when there is one.
GetReference(e, readOk) ==
    /\ ev[e].pc = "reference"
    /\ ev' = [ev EXCEPT ![e].pc = "initial_read",
                ![e].reference_timestamp =
                    IF ev[e].line_count > 0
                    THEN _get_last_mark_timestamp(ledger[ev[e].video_basename], readOk)
                    ELSE NoneText]
    /\ UNCHANGED <<ledger, line_counts, listener_running, gvars>>

\* Mutant: a reading is used as get_clipboard_text returns it.
Reading_NoSentinel(data) == get_clipboard_text(data)

\* A clipboard reading as _get_timestamp_with_retry uses it.
Reading(data) ==
    LET text == get_clipboard_text(data) IN IF text = NoneText THEN UNKNOWN ELSE text

\* _get_timestamp_with_retry, the initial delay and the first read.
InitialRead(e, data) ==
    /\ ev[e].pc = "initial_read"
    /\ LET timestamp == Reading(data)
           ref == ev[e].reference_timestamp
       IN  ev' = [ev EXCEPT
                ![e].total_wait = FAdd(FZero, CLIPBOARD_INITIAL_DELAY_SEC),
                ![e].readings = <<timestamp>>,
                ![e].timestamp = timestamp,
                ![e].pc = IF ref = NoneText \/ timestamp # ref THEN "append" ELSE "retry"]
    /\ UNCHANGED <<ledger, line_counts, listener_running, gvars>>

\* Mutant: the budget is compared with the wait so far, not with the wait
\* after the next retry.
RetryCondition_NoLookahead(c) ==
    /\ c.timestamp = c.reference_timestamp
    /\ FLe(c.total_wait, CLIPBOARD_MAX_WAIT_SEC)

\* Mutant: the loop has no budget, it retries while the clipboard is stale.
RetryCondition_NoBudget(c) == c.timestamp = c.reference_timestamp

\* The condition of the retry loop.
RetryCondition(c) ==
    /\ c.timestamp = c.reference_timestamp
    /\ FLe(FAdd(c.total_wait, CLIPBOARD_RETRY_INTERVAL_SEC), CLIPBOARD_MAX_WAIT_SEC)

\* Mutant: a retry is accounted as another initial delay.
WaitAfterRetry_Initial(total_wait) == FAdd(total_wait, CLIPBOARD_INITIAL_DELAY_SEC)

\* total_wait += CLIPBOARD_RETRY_INTERVAL_SEC
WaitAfterRetry(total_wait) == FAdd(total_wait, CLIPBOARD_RETRY_INTERVAL_SEC)

\* One pass of the retry loop: sleep, read again, leave when it differs.
RetryRead(e, data) ==
    /\ ev[e].pc = "retry"
    /\ RetryCondition(ev[e])
    /\ LET timestamp == Reading(data) IN
       ev' = [ev EXCEPT
                ![e].total_wait = WaitAfterRetry(ev[e].total_wait),
                ![e].readings = Append(ev[e].readings, timestamp),
                ![e].timestamp = timestamp,
                ![e].pc = IF timestamp # ev[e].reference_timestamp THEN "append" ELSE "retry"]
    /\ UNCHANGED <<ledger, line_counts, listener_running, gvars>>

\* Mutant: a budget that runs out on a stale clipboard raises.
RetryExhausted_Raises(e) ==
    /\ ev[e].pc = "retry"
    /\ ~RetryCondition(ev[e])
    /\ ev' = [ev EXCEPT ![e] = EvDone(ev[e], "error")]
    /\ UNCHANGED <<ledger, line_counts, listener_running, gvars>>

\* The loop condition fails with the clipboard still at the reference: the
\* function returns the stale value.
RetryExhausted(e) ==
    /\ ev[e].pc = "retry"
    /\ ~RetryCondition(ev[e])
    /\ ev' = [ev EXCEPT ![e].pc = "append"]
    /\ UNCHANGED <<ledger, line_counts, listener_running, gvars>>

\* Steps 6-7: append the mark line.  The append raises when the file or its
\* directory cannot be opened (ok = FALSE); nothing is written then.
AppendMark(e, ok) ==
    /\ ev[e].pc = "append"
    /\ LET c == ev[e]
           timestamp == IF c.timestamp = <<>> THEN UNKNOWN ELSE c.timestamp
       IN  IF ok
           THEN /\ ledger' = [ledger EXCEPT ![c.video_basename] =
                                 append_mark_line(@, timestamp, c.tag)]
                /\ ev' = [ev EXCEPT ![e].pc = "increment", ![e].timestamp = timestamp]
                /\ UNCHANGED listener_running
           ELSE /\ ev' = [ev EXCEPT ![e] = EvDone(c, "error")]
                /\ listener_running' = ExceptionCaught
                /\ UNCHANGED ledger
    /\ UNCHANGED <<line_counts, gvars>>

\* Mutant: one count for all recordings.
IncrementLineCount_Shared(e) ==
    /\ ev[e].pc = "increment"
    /\ line_counts' = [r \in Recordings |->
                          IF line_counts[r] = NoneCount THEN 1 ELSE line_counts[r] + 1]
    /\ ev' = [ev EXCEPT ![e] = EvDone(ev[e], "appended")]
    /\ UNCHANGED <<ledger, listener_running, gvars>>

\* Mutant: the count is taken from the file, already written, and
\* incremented.
IncrementLineCount_Recount(e) ==
    /\ ev[e].pc = "increment"
    /\ LET vb == ev[e].video_basename IN
       line_counts' = [line_counts EXCEPT ![vb] = get_file_line_count(ledger[vb], TRUE) + 1]
    /\ ev' = [ev EXCEPT ![e] = EvDone(ev[e], "appended")]
    /\ UNCHANGED <<ledger, listener_running, gvars>>

\* Step 8: _increment_line_count.
IncrementLineCount(e) ==
    /\ ev[e].pc = "increment"
    /\ LET vb == ev[e].video_basename IN
       line_counts' = [line_counts EXCEPT ![vb] = _get_line_count(vb, TRUE) + 1]
    /\ ev' = [ev EXCEPT ![e] = EvDone(ev[e], "appended")]
    /\ UNCHANGED <<ledger, listener_running, gvars>>

Next ==
    \/ \E e \in Events, b \in Buttons, p \in BOOLEAN : Click(e, b, p)
    \/ \E e \in Events : handle_click(e)
    \/ \E e \in Events, fg \in Foregrounds : GetForeground(e, fg)
    \/ \E e \in Events, readOk \in BOOLEAN : GetLineCount(e, readOk)
    \/ \E e \in Events, readOk \in BOOLEAN : GetReference(e, readOk)
    \/ \E e \in Events, data \in ClipData : InitialRead(e, data)
    \/ \E e \in Events, data \in ClipData : RetryRead(e, data)
    \/ \E e \in Events : RetryExhausted(e)
    \/ \E e \in Events, ok \in BOOLEAN : AppendMark(e, ok)
    \/ \E e \in Events : IncrementLineCount(e)

Spec == Init /\ [][Next]_vars

\* ------------------------------------------- properties of the marker
IsPrefix(a, b) == Len(a) <= Len(b) /\ SubSeq(b, 1, Len(a)) = a

EndsWith(f, t) == Len(t) <= Len(f) /\ SubSeq(f, Len(f) - Len(t) + 1, Len(f)) = t

\* The records of a ledger are its non-blank lines.
RecordCount(file) == Len(NonBlankLines(FileLines(file)))

\* The handler of e has decided its tag and has not yet written.
TagDecided(e) == ev[e].pc \in {"reference", "initial_read", "retry", "append"}

\* C1: the tag of a new record is "start" exactly when the number of records
\* (non-blank lines) already in the ledger is even, and "end" when it is odd.
C1_TagByRecordCount ==
    \A e \in Events :
        TagDecided(e) =>
            (ev[e].tag = "start" <=> RecordCount(ledger[ev[e].video_basename]) % 2 = 0)

\* C1, what the code computes: the parity of the cached count, which starts
\* as the number of lines of the file, blank ones included, or as 0 when the
\* file cannot be read.
C1_TagByLineCount ==
    \A e \in Events :
        TagDecided(e) =>
            /\ ev[e].tag = TagFor(ev[e].line_count)
            /\ ev[e].line_count = line_counts[ev[e].video_basename]

\* A ledger whose blank line makes the two counts differ in parity.
C1_BlankLineSeen ==
    \E e \in Events :
        /\ TagDecided(e)
        /\ ev[e].line_count = Len(FileLines(ledger[ev[e].video_basename]))
        /\ ev[e].line_count % 2 # RecordCount(ledger[ev[e].video_basename]) % 2

\* The event is not a middle-button press over a foreground PotPlayer window.
NotQualifying(c) ==
    c.button # "middle" \/ ~c.pressed \/ c.hwnd = 0 \/ ~IsTargetApp(c.class_name)

C2_Ignored ==
    \A e \in Events :
        /\ ev[e].pc \in {"count", "reference", "initial_read", "retry", "append", "increment"}
             => ~NotQualifying(ev[e])
        /\ ev[e].pc = "done" => (ev[e].outcome = "ignored" <=> NotQualifying(ev[e]))

C2_Step ==
    /\ Cardinality({r \in Recordings : ledger'[r] # ledger[r]}) <= 1
    /\ \A e \in Events :
          (ev[e].pc = "append" /\ ev'[e].pc = "increment") =>
              ledger'[ev[e].video_basename] =
                  ledger[ev[e].video_basename] \o MarkLine(ev'[e].timestamp, ev[e].tag)
    /\ \A r \in Recordings :
          ledger'[r] # ledger[r] =>
            \E e \in Events :
                /\ ev[e].pc = "append" /\ ev'[e].pc = "increment"
                /\ ev[e].video_basename = r
                /\ ledger'[r] = ledger[r] \o MarkLine(ev'[e].timestamp, ev[e].tag)
    /\ \A e \in Events :
          /\ ev[e].pc \in {"increment", "done"} => ev'[e].pc \in {"increment", "done"}
          /\ (ev'[e] # ev[e] /\ ev[e].pc \in {"new", "queued", "foreground"})
                => (ledger' = ledger /\ line_counts' = line_counts)

Fresh(c) == {i \in 1..Len(c.readings) : c.readings[i] # c.reference_timestamp}

\* C3: the accepted timestamp is the first reading that differs from the
\* reference, and no reading is taken after it; when the first reading
\* equals the reference and the second differs, the second is accepted
\* after a wait of exactly the initial delay plus one retry interval.
C3_FirstFreshAccepted ==
    \A e \in Events :
        (ev[e].pc = "append" /\ Fresh(ev[e]) # {}) =>
            /\ Fresh(ev[e]) = {Len(ev[e].readings)}
            /\ ev[e].timestamp = ev[e].readings[Len(ev[e].readings)]
            /\ Len(ev[e].readings) = 2 =>
                  ev[e].total_wait =
                      FAdd(CLIPBOARD_INITIAL_DELAY_SEC, CLIPBOARD_RETRY_INTERVAL_SEC)

C3_Witness ==
    \E e \in Events :
        /\ ev[e].pc = "append"
        /\ ev[e].reference_timestamp # NoneText
        /\ Len(ev[e].readings) = 2
        /\ Fresh(ev[e]) = {2}

\* Every reading of the handler equalled a reference that exists.
Stale(c) ==
    /\ c.reference_timestamp # NoneText
    /\ c.readings # <<>>
    /\ Fresh(c) = {}

C4_StaleKept ==
    \A e \in Events :
        Stale(ev[e]) =>
            /\ ev[e].pc \in {"retry", "append", "increment"}
            /\ ev[e].timestamp = ev[e].reference_timestamp
            /\ ev[e].pc = "increment" =>
                  EndsWith(ledger[ev[e].video_basename],
                           MarkLine(ev[e].reference_timestamp, ev[e].tag))

C4_Step ==
    \A e \in Events :
        (ev[e].pc = "retry" /\ ev'[e] # ev[e]) => ev'[e].pc \in {"retry", "append"}

\* C4: when every reading of the retry window equals the reference, the
\* protocol still returns: the loop ends in the append step, not in an
\* error, the accepted timestamp is the reference, and the record that is
\* appended carries it.
C4_StaleAccepted == []C4_StaleKept /\ [][C4_Step]_vars

C4_Witness ==
    \E e \in Events :
        /\ ev[e].pc = "increment"
        /\ Stale(ev[e])
        /\ ~FLe(FAdd(ev[e].total_wait, CLIPBOARD_RETRY_INTERVAL_SEC), CLIPBOARD_MAX_WAIT_SEC)

\* C5: the cumulative wait of a handler never exceeds the maximum wait (a
\* retry adds its interval to the wait, so none was started with less than
\* one interval of budget left).
C5_WaitWithinBudget ==
    \A e \in Events : FLe(ev[e].total_wait, CLIPBOARD_MAX_WAIT_SEC)

C5_Witness ==
    \E e \in Events :
        /\ ev[e].pc = "retry"
        /\ Len(ev[e].readings) > 1
        /\ ~FLe(FAdd(ev[e].total_wait, CLIPBOARD_RETRY_INTERVAL_SEC), CLIPBOARD_MAX_WAIT_SEC)

C6_Step ==
    \A e \in Events :
        (ev'[e].pc = "done" /\ ev[e].pc # "done" /\ ev'[e].outcome = "error") =>
            /\ ledger' = ledger
            /\ line_counts' = line_counts
            /\ listener_running'

CountRead(e) ==
    \/ ev[e].pc \in {"reference", "initial_read", "retry", "append", "increment"}
    \/ ev[e].pc = "done" /\ ev[e].outcome \in {"appended", "error"}

\* C7: two events are never handled at the same time: at most one handler
\* is between its start and its end, an event's handler reads the count only
\* after every earlier event is finished, and so after an event that
\* appended to the same ledger it reads a larger count.
C7_Serialized ==
    \A d, e \in Events :
        d < e =>
            /\ ~(InFlight(d) /\ InFlight(e))
            /\ CountRead(e) => ev[d].pc = "done"
            /\ (CountRead(e) /\ ev[d].outcome = "appended"
                  /\ ev[d].video_basename = ev[e].video_basename)
                 => ev[e].line_count > ev[d].line_count

\* A second click arrives while the first handler waits in its retry loop.
C7_Witness ==
    \E d, e \in Events :
        /\ d < e
        /\ ev[d].pc = "retry"
        /\ ev[e].pc = "queued" /\ ev[e].button = "middle" /\ ev[e].pressed

C8_Step == \A r \in Recordings : IsPrefix(ledger[r], ledger'[r])

\* C8: the ledger is append-only: in every step, the failing ones included,
\* the old content of each ledger is a prefix of the new.
C8_AppendOnly == [][C8_Step]_vars

\* A non-empty ledger grew, and an append to it failed.
C8_Witness ==
    \E d, e \in Events :
        /\ ev[d].outcome = "appended" /\ ev[d].line_count > 0
        /\ ev[e].outcome = "error"

\* ------------------------------------------------- the clip generator
InitGen ==
    /\ ledger = [r \in Recordings |-> <<>>]
    /\ line_counts = [r \in Recordings |-> NoneCount]
    /\ ev = [e \in Events |-> EvNew]
    /\ listener_running = TRUE
    /\ marks_file \in MarksFiles
    /\ gui = GuiIdle
    /\ cli = CliIdle
    /\ call = NoCall

\* An exception: the error dialog of on_open_video, sys.exit(1) of main.
Raised(c, pc, r) == [c EXCEPT !.pc = pc, !.error = r.error, !.at = r.at]

\* gui_app.on_open_video calls core.load_segments_from_marks (always with
\* mode "keyframe"), whose three statements are the next three actions; an
\* exception of any of them ends in the error dialog.
GuiAlignMode == "keyframe"

load_parse ==
    /\ gui.pc = "idle"
    /\ LET entries == _parse_marks_file(marks_file) IN
       gui' = IF ~entries.ok THEN Raised(gui, "error", entries)
              ELSE [gui EXCEPT !.pc = "parsed", !.entries = entries.value]
    /\ UNCHANGED <<mvars, marks_file, cli, call>>

load_build ==
    /\ gui.pc = "parsed"
    /\ LET raw_segments == core_build_segments_from_entries(gui.entries) IN
       gui' = IF ~raw_segments.ok THEN Raised(gui, "error", raw_segments)
              ELSE [gui EXCEPT !.pc = "built", !.segments = raw_segments.value]
    /\ UNCHANGED <<mvars, marks_file, cli, call>>

\* Alignment, the ClipSegment list, and what on_open_video does with it: a
\* "no clips" warning for an empty list, else the segments are taken over.
load_align(ffprobe) ==
    /\ gui.pc = "built"
    /\ LET aligned == align_segments_with_keyframes(gui.segments, GuiAlignMode, ffprobe) IN
       gui' = IF ~aligned.ok THEN Raised(gui, "error", aligned)
              ELSE IF aligned.value = <<>> THEN [gui EXCEPT !.pc = "no_clips"]
              ELSE [gui EXCEPT !.pc = "loaded", !.segments = ClipSegments(aligned.value)]
    /\ UNCHANGED <<mvars, marks_file, cli, call>>

\* generate_clips.main, statement by statement from the parsing of the
\* .marks file on.
cli_parse ==
    /\ cli.pc = "idle"
    /\ LET entries == _parse_marks_file(marks_file) IN
       cli' = IF ~entries.ok THEN Raised(cli, "exit1", entries)
              ELSE [cli EXCEPT !.pc = "parsed", !.entries = entries.value]
    /\ UNCHANGED <<mvars, marks_file, gui, call>>

\* Pairing: UNKNOWN pairs are skipped with a warning; sys.exit(0) when no
\* pair is left.
cli_build ==
    /\ cli.pc = "parsed"
    /\ LET built == cli_build_segments_from_entries(cli.entries) IN
       cli' = [cli EXCEPT !.pc = IF Len(built[1]) = 0 THEN "exit0" ELSE "built",
                          !.segments = built[1], !.skipped_unknown = built[2]]
    /\ UNCHANGED <<mvars, marks_file, gui, call>>

cli_convert ==
    /\ cli.pc = "built"
    /\ LET converted == _convert_segments_to_seconds(cli.segments) IN
       cli' = IF ~converted.ok THEN Raised(cli, "exit1", converted)
              ELSE [cli EXCEPT !.pc = "converted", !.segments = converted.value]
    /\ UNCHANGED <<mvars, marks_file, gui, call>>

cli_align(align_mode, ffprobe) ==
    /\ cli.pc = "converted"
    /\ LET aligned == align_segments_with_keyframes(cli.segments, align_mode, ffprobe) IN
       cli' = IF ~aligned.ok THEN Raised(cli, "exit1", aligned)
              ELSE [cli EXCEPT !.pc = "cutting", !.segments = aligned.value]
    /\ UNCHANGED <<mvars, marks_file, gui, call>>

\* What running ffmpeg for one clip comes to: return code 0, another return
\* code, or subprocess.run raising because the executable cannot be started.
FfmpegOutcomes == {Ran(0, <<>>), Ran(1, <<>>), NotStarted}

\* One pass of main's loop over the aligned segments: one ffmpeg run, whose
\* return code decides which counter grows; an exception of subprocess.run
\* is caught nowhere and ends main.
cli_cut(result) ==
    /\ cli.pc = "cutting"
    /\ cli.clip_index < Len(cli.segments)
    /\ cli' = IF ~result.started
              THEN [cli EXCEPT !.pc = "crashed", !.error = "FileNotFoundError",
                               !.clip_index = @ + 1]
              ELSE [cli EXCEPT !.clip_index = @ + 1,
                          !.success_count = IF result.returncode = 0 THEN @ + 1 ELSE @,
                          !.fail_count = IF result.returncode = 0 THEN @ ELSE @ + 1]
    /\ UNCHANGED <<mvars, marks_file, gui, call>>

\* The loop is over: main returns.
cli_done ==
    /\ cli.pc = "cutting"
    /\ cli.clip_index = Len(cli.segments)
    /\ cli' = [cli EXCEPT !.pc = "exit0"]
    /\ UNCHANGED <<mvars, marks_file, gui, call>>

NextGen ==
    \/ load_parse
    \/ load_build
    \/ \E ffprobe \in FfprobeAnswers : load_align(ffprobe)
    \/ cli_parse
    \/ cli_build
    \/ cli_convert
    \/ \E m \in AlignModes, ffprobe \in FfprobeAnswers : cli_align(m, ffprobe)
    \/ \E result \in FfmpegOutcomes : cli_cut(result)
    \/ cli_done

SpecGen == InitGen /\ [][NextGen]_vars

\* --------------------------------- properties of the clip generator
\* The entries of the lines of the .marks file.
Ledger == ReadEntries(FileLines(marks_file))

\* An even, non-zero count of valid entries whose tags alternate start, end.
ValidAlternating(L) ==
    /\ L.ok
    /\ Len(L.value) > 0
    /\ Len(L.value) % 2 = 0
    /\ \A k \in 1..Len(L.value) : L.value[k].tag = IF k % 2 = 1 THEN "start" ELSE "end"

Pairs(L) == 1..(Len(L.value) \div 2)

UnknownPair(L, k) ==
    \/ L.value[2 * k - 1].timestamp_raw = UNKNOWN
    \/ L.value[2 * k].timestamp_raw = UNKNOWN

ProperTimes(s, e) == s.ok /\ e.ok /\ s.val < e.val

\* Both timestamps of pair k are times, the start before the end.
ProperPair(L, k) ==
    ProperTimes(_parse_timestamp_to_seconds(L.value[2 * k - 1].timestamp_raw),
                _parse_timestamp_to_seconds(L.value[2 * k].timestamp_raw))

\* An entry point is past the making of segments.
PastPairing(pc) == pc \notin {"idle", "parsed"}

\* The entry point made its segments and failed later, in the alignment.
FailedAligning(c) == c.error = "FileNotFoundError"

\* Both entry points get past the making of segments without an error, each
\* with one segment per pair of the ledger, in the order of the pairs.
SegmentPerPair(L) ==
    /\ PastPairing(gui.pc) =>
          /\ gui.pc \in {"built", "loaded"} \/ FailedAligning(gui)
          /\ Len(gui.segments) = Len(L.value) \div 2
          /\ gui.pc # "loaded" => \A k \in Pairs(L) : gui.segments[k].pair_index = k
          /\ gui.pc = "loaded" => \A k \in Pairs(L) : gui.segments[k].index = k
    /\ PastPairing(cli.pc) =>
          /\ cli.pc # "exit1" \/ FailedAligning(cli)
          /\ Len(cli.segments) = Len(L.value) \div 2
          /\ \A k \in Pairs(L) : cli.segments[k].pair_index = k

CountHalfSegments(L) == ValidAlternating(L) => SegmentPerPair(L)

\* C9, as stated: every ledger with an even, non-zero count of valid entries
\* whose tags alternate gives exactly count/2 segments, in ascending order of
\* pair index.
C9_CountHalfSegments ==
    (PastPairing(gui.pc) \/ PastPairing(cli.pc)) => CountHalfSegments(Ledger)

ProperLedger(L) == ValidAlternating(L) /\ \A k \in Pairs(L) : ProperPair(L, k)

ProperPairsSegments(L) == ProperLedger(L) => SegmentPerPair(L)

\* C9, as amended: it does when moreover both timestamps of every pair are
\* times (not UNKNOWN, not malformed) and every start is before its end.
C9_ProperPairsSegments ==
    (PastPairing(gui.pc) \/ PastPairing(cli.pc)) => ProperPairsSegments(Ledger)

TwoProperPairs(L) == ProperLedger(L) /\ Len(L.value) = 4

C9_Witness ==
    /\ gui.pc = "built"
    /\ cli.pc = "converted"
    /\ TwoProperPairs(Ledger)

\* Pairs with UNKNOWN in a ledger that is in order otherwise.
OnlyUnknownWrong(L) ==
    /\ ValidAlternating(L)
    /\ \E k \in Pairs(L) : UnknownPair(L, k)
    /\ \A k \in Pairs(L) : UnknownPair(L, k) \/ ProperPair(L, k)

FirstUnknownPair(L) ==
    CHOOSE k \in Pairs(L) : UnknownPair(L, k) /\ \A j \in 1..(k - 1) : ~UnknownPair(L, j)

CliRejectsGuiSkips(L) ==
    OnlyUnknownWrong(L) =>
        /\ PastPairing(cli.pc) => cli.pc = "exit1"
        /\ gui.pc # "error"

\* C10, as stated: generate_clips rejects a ledger with an UNKNOWN pair,
\* load_segments_from_marks does not fail on it.
C10_CliRejectsGuiSkips ==
    (PastPairing(gui.pc) \/ PastPairing(cli.pc)) => CliRejectsGuiSkips(Ledger)

CliSkipsGuiRejects(L) ==
    OnlyUnknownWrong(L) =>
        /\ PastPairing(cli.pc) =>
              /\ cli.pc # "exit1" \/ FailedAligning(cli)
              /\ {cli.skipped_unknown[i].pair_index : i \in 1..Len(cli.skipped_unknown)}
                    = {k \in Pairs(L) : UnknownPair(L, k)}
              /\ {cli.segments[i].pair_index : i \in 1..Len(cli.segments)}
                    = {k \in Pairs(L) : ~UnknownPair(L, k)}
              /\ Len(cli.skipped_unknown) + Len(cli.segments) = Len(L.value) \div 2
        /\ PastPairing(gui.pc) =>
              /\ gui.pc = "error"
              /\ gui.error = "UnknownTimestamp"
              /\ gui.at = <<FirstUnknownPair(L)>>
              /\ gui.segments = <<>>

\* C10, as amended: it is generate_clips that skips the pairs with UNKNOWN,
\* lists them as skipped and goes on with the others (it ends with status 0
\* when none is left), and load_segments_from_marks that raises, for the
\* first such pair, so that the GUI shows its error dialog and no segment.
C10_CliSkipsGuiRejects ==
    (PastPairing(gui.pc) \/ PastPairing(cli.pc)) => CliSkipsGuiRejects(Ledger)

OneUnknownOfTwo(L) == OnlyUnknownWrong(L) /\ Len(L.value) = 4

C10_Witness ==
    /\ cli.pc = "cutting"
    /\ Len(cli.skipped_unknown) = 1
    /\ Len(cli.segments) = 1
    /\ gui.pc = "error"
    /\ OneUnknownOfTwo(Ledger)

\* Parsing is over at an entry point.
PastParsing(pc) == pc # "idle"

\* Every non-blank line of the ledger is a valid entry, their number is odd.
OddLedger(L) == L.ok /\ Len(L.value) % 2 = 1

\* Both entry points have failed with the error kind, naming at, and hold no
\* segment.
FailedWith(kind, at) ==
    /\ PastParsing(gui.pc) =>
          gui.pc = "error" /\ gui.error = kind /\ gui.at = at /\ gui.segments = <<>>
    /\ PastParsing(cli.pc) =>
          cli.pc = "exit1" /\ cli.error = kind /\ cli.at = at /\ cli.segments = <<>>

OddFails(L) == OddLedger(L) => FailedWith("UnpairedEntries", <<Len(L.value)>>)

\* C11: a ledger with an odd number of valid entries yields the
\* UnpairedEntries error (its message gives the number of entries) at both
\* entry points, and never a segment list.
C11_OddUnpaired == (PastParsing(gui.pc) \/ PastParsing(cli.pc)) => OddFails(Ledger)

ThreeEntries(L) == OddLedger(L) /\ Len(L.value) = 3

C11_Witness ==
    /\ gui.pc = "error"
    /\ cli.pc = "exit1"
    /\ ThreeEntries(Ledger)

\* Pair k of the ledger is tagged (end, start).
EndStart(L, k) == L.value[2 * k - 1].tag = "end" /\ L.value[2 * k].tag = "start"

\* Pair k is tagged (start, end).
StartEnd(L, k) == L.value[2 * k - 1].tag = "start" /\ L.value[2 * k].tag = "end"

\* The line numbers of the two entries of pair k.
LinesOfPair(L, k) == <<L.value[2 * k - 1].line_no, L.value[2 * k].line_no>>

EndStartNamed(L) ==
    L.ok => \A k \in Pairs(L) :
                EndStart(L, k) => FailedWith("OutOfOrder", LinesOfPair(L, k))

\* C12, as stated: a ledger of valid entries whose pair k is tagged
\* (end, start) yields the OutOfOrder error, which names pair k.
C12_EndStartOutOfOrder ==
    (PastParsing(gui.pc) \/ PastParsing(cli.pc)) => EndStartNamed(Ledger)

FirstEndStartNamed(L) ==
    (L.ok /\ Len(L.value) % 2 = 0) =>
        \A k \in Pairs(L) :
            (EndStart(L, k) /\ \A j \in 1..(k - 1) : StartEnd(L, j))
                => FailedWith("OutOfOrder", LinesOfPair(L, k))

\* C12, as amended: it does when the number of entries is even and every
\* pair before pair k is tagged (start, end); the error names the lines of
\* the two entries of pair k.
C12_FirstEndStartOutOfOrder ==
    (PastParsing(gui.pc) \/ PastParsing(cli.pc)) => FirstEndStartNamed(Ledger)

SecondPairEndStart(L) ==
    L.ok /\ Len(L.value) = 4 /\ StartEnd(L, 1) /\ EndStart(L, 2)

C12_Witness ==
    /\ gui.pc = "error"
    /\ cli.pc = "exit1"
    /\ SecondPairEndStart(Ledger)

\* Both timestamps are times and the start is not before the end.
NonPositiveTimes(s, e) == s.ok /\ e.ok /\ s.val >= e.val

NonPositivePair(L, k) ==
    NonPositiveTimes(_parse_timestamp_to_seconds(L.value[2 * k - 1].timestamp_raw),
                     _parse_timestamp_to_seconds(L.value[2 * k].timestamp_raw))

\* generate_clips has the seconds of its segments, or has failed.
PastConversion(pc) == pc \notin {"idle", "parsed", "built"}

\* The raw segments an entry point holds have their start before their end.
EmittedPositive ==
    /\ gui.pc = "built" =>
          \A i \in 1..Len(gui.segments) :
              gui.segments[i].start_sec < gui.segments[i].end_sec
    /\ cli.pc \in {"converted", "cutting"} =>
          \A i \in 1..Len(cli.segments) :
              cli.segments[i].start_sec < cli.segments[i].end_sec

NonPositiveNamed(L) ==
    ValidAlternating(L) =>
        \A k \in Pairs(L) :
            NonPositivePair(L, k) =>
                /\ PastPairing(gui.pc) =>
                      /\ gui.pc = "error"
                      /\ gui.error = "NonPositiveDuration" /\ gui.at = <<k>>
                /\ PastConversion(cli.pc) =>
                      /\ cli.pc = "exit1"
                      /\ cli.error = "NonPositiveDuration" /\ cli.at = <<k>>

FirstNonPositiveNamed(L) ==
    ValidAlternating(L) =>
        \A k \in Pairs(L) :
            NonPositivePair(L, k) =>
                /\ PastPairing(gui.pc) =>
                      /\ gui.pc = "error"
                      /\ gui.segments = <<>>
                      /\ (\A j \in 1..(k - 1) : ProperPair(L, j)) =>
                            gui.error = "NonPositiveDuration" /\ gui.at = <<k>>
                /\ PastConversion(cli.pc) =>
                      /\ cli.pc = "exit1"
                      /\ (\A j \in 1..(k - 1) : ProperPair(L, j) \/ UnknownPair(L, j)) =>
                            cli.error = "NonPositiveDuration" /\ cli.at = <<k>>

SecondPairNonPositive(L) ==
    ValidAlternating(L) /\ Len(L.value) = 4 /\ ProperPair(L, 1) /\ NonPositivePair(L, 2)

MaxKeyframes == 3

\* Lines ffprobe prints: keyframe times, and one that is no number.
KeyframeLines == { <<"2">>, <<"5">>, <<"9">>, <<"N", "/", "A">> }

RECURSIVE OutputsOfLines(_)
OutputsOfLines(n) ==
    IF n = 0 THEN {<<>>}
    ELSE {o \o <<l>> : o \in OutputsOfLines(n - 1), l \in KeyframeLines}

\* What running ffprobe comes to, for a call: the executable cannot be
\* started, a non-zero exit, or an output of up to MaxKeyframes lines in any
\* order.
FfprobeOutcomes ==
    {NotStarted, Ran(1, <<>>)}
        \cup {Ran(0, o) : o \in UNION {OutputsOfLines(n) : n \in 0..MaxKeyframes}}

\* The align_mode argument: the two modes of the docstring, and another.
CallModes == AlignModes \cup {"nearest"}

\* Timestamps of the ledgers of a call, around the keyframe times.
CallTimes ==
    { <<"0">>, <<"1">>, <<"2">>, <<"3">>, <<"5">>, <<"7">>, <<"8">>, <<"9">>, <<"1", "0">> }

\* The two lines of a pair of a .marks file.
PairLines(ts_start, ts_end) ==
    ts_start \o <<COMMA, SP, "start", LF>> \o ts_end \o <<COMMA, SP, "end", LF>>

HMS(h, m, s) == h \o <<":">> \o m \o <<":">> \o s

\* A .marks file of two pairs with timestamps written HH:MM:SS.
ExampleMarks ==
    PairLines(HMS(<<"0", "0">>, <<"0", "0">>, <<"0", "5">>),
              HMS(<<"0", "0">>, <<"0", "1">>, <<"1", "0">>))
        \o PairLines(HMS(<<"0", "0">>, <<"0", "2">>, <<"0", "0">>),
                     HMS(<<"0", "0">>, <<"0", "2">>, <<"3", "0">>))

\* The .marks files of a call: one pair of any two of the times (start before
\* end, or not), two pairs around the keyframe times, and the one above.
CallMarksFiles ==
    {PairLines(a, b) : a \in CallTimes, b \in CallTimes}
        \cup { PairLines(<<"1">>, <<"8">>) \o PairLines(<<"3">>, <<"7">>), ExampleMarks }

\* A call of load_segments_from_marks about to run.
Called(marks, align_mode, ffprobe) ==
    [pc |-> "called", marks |-> marks, align_mode |-> align_mode, ffprobe |-> ffprobe,
     segments |-> <<>>, aligned |-> <<>>, clips |-> <<>>, error |-> ""]

InitAlign ==
    /\ ledger = [r \in Recordings |-> <<>>]
    /\ line_counts = [r \in Recordings |-> NoneCount]
    /\ ev = [e \in Events |-> EvNew]
    /\ listener_running = TRUE
    /\ marks_file = <<>>
    /\ gui = GuiIdle
    /\ cli = CliIdle
    /\ \E marks \in CallMarksFiles, m \in CallModes, ffprobe \in FfprobeOutcomes :
           call = Called(marks, m, ffprobe)

\* An exception leaves the call.
CallRaised(r) == [call EXCEPT !.pc = "raised", !.error = r.error]

\* The two statements that make the raw segments of the .marks file.
SegmentsOfEntries(entries) ==
    IF ~entries.ok THEN entries ELSE core_build_segments_from_entries(entries.value)

call_build ==
    /\ call.pc = "called"
    /\ LET raw_segments == SegmentsOfEntries(_parse_marks_file(call.marks)) IN
       call' = IF ~raw_segments.ok THEN CallRaised(raw_segments)
               ELSE [call EXCEPT !.pc = "built", !.segments = raw_segments.value]
    /\ UNCHANGED <<mvars, marks_file, gui, cli>>

\* The call of alignment.align_segments_with_keyframes.
call_align ==
    /\ call.pc = "built"
    /\ LET aligned == align_segments_with_keyframes(call.segments, call.align_mode,
                                                    call.ffprobe) IN
       call' = IF ~aligned.ok THEN CallRaised(aligned)
               ELSE [call EXCEPT !.pc = "aligned", !.aligned = aligned.value]
    /\ UNCHANGED <<mvars, marks_file, gui, cli>>

\* The ClipSegment list is made, sorted and returned.
call_return ==
    /\ call.pc = "aligned"
    /\ call' = [call EXCEPT !.pc = "returned", !.clips = ClipSegments(call.aligned)]
    /\ UNCHANGED <<mvars, marks_file, gui, cli>>

NextAlign ==
    \/ call_build
    \/ call_align
    \/ call_return

SpecAlign == InitAlign /\ [][NextAlign]_vars

\* ------------------------------------------- properties of the alignment
\* The keyframe list of the call.
KeyframesOf(c) == _run_ffprobe_for_keyframes(c.ffprobe)

PositiveFinals(aligned) ==
    \A i \in 1..Len(aligned) : aligned[i].start_final < aligned[i].end_final

PositiveClips(clips) ==
    \A i \in 1..Len(clips) :
        /\ clips[i].start_sec < clips[i].end_sec
        /\ clips[i].aligned_start_sec < clips[i].aligned_end_sec

NoKeyframeInside(segs, keyframes) ==
    /\ keyframes.ok /\ keyframes.value # <<>> /\ segs # <<>>
    /\ \A j \in 1..Len(keyframes.value) :
          \/ keyframes.value[j] < segs[1].start_sec
          \/ keyframes.value[j] > segs[1].end_sec
    /\ \E j \in 1..Len(keyframes.value) : keyframes.value[j] < segs[1].start_sec
    /\ \E j \in 1..Len(keyframes.value) : keyframes.value[j] > segs[1].end_sec

FirstAtLeast(keyframes, v) ==
    LET after == {j \in 1..Len(keyframes) : keyframes[j] >= v} IN
    IF after = {} THEN keyframes[Len(keyframes)]
    ELSE keyframes[CHOOSE j \in after : \A i \in after : j <= i]

\* The last keyframe at or before v, the first keyframe when there is none.
LastAtMost(keyframes, v) ==
    LET before == {j \in 1..Len(keyframes) : keyframes[j] <= v} IN
    IF before = {} THEN keyframes[1]
    ELSE keyframes[CHOOSE j \in before : \A i \in before : j >= i]

Ascending(keyframes) ==
    \A j \in 1..(Len(keyframes) - 1) : keyframes[j] <= keyframes[j + 1]

\* The finals of a segment are the aligned boundaries a, b when a < b, its
\* raw boundaries otherwise.
SnappedTo(seg, a, b) ==
    IF a >= b
    THEN /\ seg.start_final = seg.start_sec
         /\ seg.end_final = seg.end_sec
         /\ ~seg.used_keyframe_alignment
    ELSE /\ seg.start_final = a
         /\ seg.end_final = b
         /\ seg.used_keyframe_alignment

SnappedToKeyframes(aligned, keyframes) ==
    /\ Ascending(keyframes)
    /\ \A i \in 1..Len(aligned) :
          SnappedTo(aligned[i], FirstAtLeast(keyframes, aligned[i].start_sec),
                    LastAtMost(keyframes, aligned[i].end_sec))

\* The call ran in mode "keyframe" with a keyframe list that is not empty.
AlignedToKeyframes(c) ==
    /\ c.pc \in {"aligned", "returned"}
    /\ c.align_mode = "keyframe"
    /\ KeyframesOf(c).value # <<>>

\* The finals of the segment of raw boundaries start, end (in seconds).
FinalsOf(aligned, start, end) ==
    {<<aligned[i].start_final, aligned[i].end_final, aligned[i].used_keyframe_alignment>> :
        i \in {j \in 1..Len(aligned) : /\ aligned[j].start_sec = start * MsPerSec
                                       /\ aligned[j].end_sec = end * MsPerSec}}

\* With keyframes 2, 5, 9: raw (3, 7) stays (3, 7), raw (1, 8) becomes (2, 5).
ExampleKeyframes == <<2 * MsPerSec, 5 * MsPerSec, 9 * MsPerSec>>

ExampleSnapped(aligned) ==
    /\ FinalsOf(aligned, 3, 7) \subseteq {<<3 * MsPerSec, 7 * MsPerSec, FALSE>>}
    /\ FinalsOf(aligned, 1, 8) \subseteq {<<2 * MsPerSec, 5 * MsPerSec, TRUE>>}

PastAlignment(c) == c.segments # <<>> /\ c.pc \in {"aligned", "returned", "raised"}

\* ffprobe ran and gave nothing to align to: it ended with a non-zero code,
\* or none of the lines it printed is a number.
NoKeyframeRead(ffprobe) ==
    /\ ffprobe.started
    /\ \/ ffprobe.returncode # 0
       \/ \A j \in 1..Len(ffprobe.stdout) : ~ParseFloat(ffprobe.stdout[j]).ok

\* Every segment is there with its raw boundaries, flagged not aligned.
KeptRaw(c) ==
    /\ c.pc # "raised"
    /\ Len(c.aligned) = Len(c.segments)
    /\ \A i \in 1..Len(c.segments) :
          /\ c.aligned[i].pair_index = c.segments[i].pair_index
          /\ c.aligned[i].start_final = c.segments[i].start_sec
          /\ c.aligned[i].end_final = c.segments[i].end_sec
          /\ ~c.aligned[i].used_keyframe_alignment
    /\ c.pc = "returned" =>
          /\ Len(c.clips) = Len(c.segments)
          /\ \A i \in 1..Len(c.segments) :
                /\ c.clips[i].index = c.segments[i].pair_index
                /\ c.clips[i].start_sec = c.segments[i].start_sec
                /\ c.clips[i].end_sec = c.segments[i].end_sec
                /\ ~c.clips[i].used_keyframe_alignment

\* C16: in mode "keyframe", when ffprobe ended with a non-zero code or
\* printed no numeric line, no error is raised and every segment is returned
\* with its raw boundaries, flagged not aligned.
C16_NoKeyframesKeepsRaw ==
    (PastAlignment(call) /\ call.align_mode = "keyframe" /\ NoKeyframeRead(call.ffprobe))
        => KeptRaw(call)

\* ffprobe ended with code 0 and printed lines, none of them a number.
C16_Witness ==
    /\ call.pc = "returned"
    /\ call.align_mode = "keyframe"
    /\ call.ffprobe.returncode = 0
    /\ call.ffprobe.stdout # <<>>
    /\ NoKeyframeRead(call.ffprobe)
    /\ Len(call.clips) = 2

\* The boundaries of the clips, in seconds.
ClipTimes(clips) == [i \in 1..Len(clips) |-> <<clips[i].start_sec, clips[i].end_sec>>]

\* The file of ExampleMarks gives the segments (5, 70) and (120, 150).
ExampleClips(c) ==
    (c.pc = "returned" /\ c.marks = ExampleMarks) =>
        ClipTimes(c.clips) = << <<5 * MsPerSec, 70 * MsPerSec>>,
                                <<120 * MsPerSec, 150 * MsPerSec>> >>

\* C17: in mode "none" every segment is returned with its raw boundaries,
\* flagged not aligned, whatever running ffprobe would come to (the
\* keyframes are not consulted); the ledger 00:00:05 start, 00:01:10 end,
\* 00:02:00 start, 00:02:30 end gives exactly the segments (5, 70) and
\* (120, 150).
C17_NonePassThrough ==
    (PastAlignment(call) /\ call.align_mode = "none") =>
        /\ KeptRaw(call)
        /\ ExampleClips(call)

\* The example, with an ffprobe whose keyframes would move the first segment.
C17_Witness ==
    /\ call.pc = "returned"
    /\ call.align_mode = "none"
    /\ call.marks = ExampleMarks
    /\ KeyframesOf(call).value = ExampleKeyframes

\* The alignment returned one result for every segment.
ResultPerSegment(c) ==
    /\ Len(c.aligned) = Len(c.segments)
    /\ \A i \in 1..Len(c.segments) : c.aligned[i].pair_index = c.segments[i].pair_index

\* C18, as stated: the alignment raises if and only if the mode is neither
\* "none" nor "keyframe"; in these two modes it returns a result for every
\* segment.
C18_RaisesIffUnsupported ==
    PastAlignment(call) =>
        /\ call.pc = "raised" <=> call.align_mode \notin {"none", "keyframe"}
        /\ call.align_mode \in {"none", "keyframe"} => ResultPerSegment(call)

\* The ffprobe executable could not be started when the keyframes were read.
FfprobeMissing(c) == c.align_mode = "keyframe" /\ ~c.ffprobe.started

\* C18, as the code has it: the alignment raises if and only if the mode is
\* neither "none" nor "keyframe", or the mode is "keyframe" and ffprobe could
\* not be started; otherwise it returns a result for every segment.
C18_RaisesIffUnsupportedOrMissing ==
    PastAlignment(call) =>
        /\ call.pc = "raised" <=>
              (call.align_mode \notin {"none", "keyframe"} \/ FfprobeMissing(call))
        /\ call.pc = "raised" =>
              call.error = IF FfprobeMissing(call) THEN "FileNotFoundError"
                           ELSE "UnsupportedMode"
        /\ call.pc # "raised" => ResultPerSegment(call)

\* Mode "keyframe" raised.
C18_KeyframeRaised ==
    /\ PastAlignment(call)
    /\ call.align_mode = "keyframe"
    /\ call.pc = "raised"

\* --------------------------------------- core.py: timestamps written
\* The decimal digits of a natural number.
RECURSIVE DigitsOf(_)
DigitsOf(n) ==
    IF n < 10 THEN <<Digits[n + 1]>> ELSE DigitsOf(n \div 10) \o <<Digits[(n % 10) + 1]>>

\* f"{n:0{width}d}" of a natural number: zeros in front up to the width.
RECURSIVE ZeroPad(_, _)
ZeroPad(t, width) == IF Len(t) >= width THEN t ELSE ZeroPad(<<"0">> \o t, width)

\* The seconds given to _format_seconds_to_timestamp are held in halves of a
\* millisecond, so that sec * 1000 is a whole number of milliseconds or lies
\* exactly half-way between two. The values of the model are those for which
\* that product is exact on doubles: whole milliseconds, whose product comes
\* back to the whole number, and sixteenths of a second (0.0625 * 1000 is
\* 62.5).
HalfMsPerMs == 2

\* round() giving the higher millisecond for a half.
round_HalfUp(halves) == (halves + 1) \div HalfMsPerMs

\* Python's round() of a number of halves: a half goes to the even neighbour.
round(halves) ==
    LET below == halves \div HalfMsPerMs IN
    IF halves % HalfMsPerMs = 0 \/ below % 2 = 0 THEN below ELSE below + 1

\* int(round(sec * 1000)) after a negative sec is replaced by 0.
TotalMs(sec) == round(IF sec < 0 THEN 0 ELSE sec)

\* The text of a whole number of milliseconds with the remainder written as
\* it is, without zeros in front.
TimestampOfMs_BareRemainder(total_ms) ==
    LET ms == total_ms % MsPerSec
        total_sec == total_ms \div MsPerSec
        h == total_sec \div SecondsPerHour
        m == (total_sec % SecondsPerHour) \div SecondsPerMinute
        s == total_sec % SecondsPerMinute
        hms == HMS(ZeroPad(DigitsOf(h), 2), ZeroPad(DigitsOf(m), 2), ZeroPad(DigitsOf(s), 2))
    IN  IF ms = 0 THEN hms ELSE hms \o <<".">> \o DigitsOf(ms)

\* The text of a whole number of milliseconds.
TimestampOfMs(total_ms) ==
    LET ms == total_ms % MsPerSec
        total_sec == total_ms \div MsPerSec
        h == total_sec \div SecondsPerHour
        m == (total_sec % SecondsPerHour) \div SecondsPerMinute
        s == total_sec % SecondsPerMinute
        hms == HMS(ZeroPad(DigitsOf(h), 2), ZeroPad(DigitsOf(m), 2), ZeroPad(DigitsOf(s), 2))
    IN  IF ms = 0 THEN hms ELSE hms \o <<".">> \o ZeroPad(DigitsOf(ms), 3)

_format_seconds_to_timestamp(sec) == TimestampOfMs(TotalMs(sec))

\* ------------------------------- calls of the two timestamp functions
\* Fields of the texts given to _parse_timestamp_to_seconds.
MaxFields == 4

\* What a field holds: numbers below, at and above 60, one written with a
\* zero in front, one negative, one with a fraction, and no number.
FieldTexts ==
    { <<"0">>, <<"0", "7">>, <<"5", "9">>, <<"6", "0">>, <<"1", "0", "0">>,
      <<"-", "1">>, <<"1", ".", "5">>, <<>> }

\* The texts of n fields.
RECURSIVE TextsOfFields(_)
TextsOfFields(n) ==
    IF n = 1 THEN FieldTexts
    ELSE {t \o <<":">> \o f : t \in TextsOfFields(n - 1), f \in FieldTexts}

\* The texts parsed: up to MaxFields fields, and two with blanks around.
CodecTexts ==
    UNION {TextsOfFields(n) : n \in 1..MaxFields} \cup {<<SP>>, <<SP, "7", SP>>}

\* A sixteenth of a second, in halves of a millisecond.
SixteenthSec == (MsPerSec * HalfMsPerMs) \div 16

\* The seconds values written, in halves of a millisecond: whole
\* milliseconds with and without a millisecond remainder and with hours of
\* three digits, one that is negative, and sixteenths of a second.
CodecValues ==
    { (((h * SecondsPerHour + m * SecondsPerMinute + s) * MsPerSec) + ms) * HalfMsPerMs :
        h \in {0, 1, 100}, m \in {0, 1, 59}, s \in {0, 9, 59}, ms \in {0, 5, 50, 999} }
        \cup {-MsPerSec * HalfMsPerMs}
        \cup {n * SixteenthSec : n \in 1..17}
        \cup {SecondsPerHour * MsPerSec * HalfMsPerMs - SixteenthSec}

\* A call of _parse_timestamp_to_seconds on a text, or of
\* _format_seconds_to_timestamp on a value followed by one of
\* _parse_timestamp_to_seconds on its result.
ParseCall(text) ==
    [pc |-> "text", value |-> 0, written |-> FALSE, text |-> text, parsed |-> BadNum]

FormatCall(value) ==
    [pc |-> "value", value |-> value, written |-> TRUE, text |-> <<>>, parsed |-> BadNum]

InitCodec ==
    /\ ledger = [r \in Recordings |-> <<>>]
    /\ line_counts = [r \in Recordings |-> NoneCount]
    /\ ev = [e \in Events |-> EvNew]
    /\ listener_running = TRUE
    /\ marks_file = <<>>
    /\ gui = GuiIdle
    /\ cli = CliIdle
    /\ \/ \E text \in CodecTexts : call = ParseCall(text)
       \/ \E value \in CodecValues : call = FormatCall(value)

call_format ==
    /\ call.pc = "value"
    /\ call' = [call EXCEPT !.pc = "text", !.text = _format_seconds_to_timestamp(call.value)]
    /\ UNCHANGED <<mvars, marks_file, gui, cli>>

call_parse ==
    /\ call.pc = "text"
    /\ LET seconds == _parse_timestamp_to_seconds(call.text) IN
       call' = [call EXCEPT !.pc = IF seconds.ok THEN "parsed" ELSE "invalid",
                            !.parsed = seconds]
    /\ UNCHANGED <<mvars, marks_file, gui, cli>>

NextCodec ==
    \/ call_format
    \/ call_parse

SpecCodec == InitCodec /\ [][NextCodec]_vars

\* ----------------------------------- properties of the timestamp functions
\* A value that is not negative, at millisecond resolution.
WholeMs(value) == value >= 0 /\ value % HalfMsPerMs = 0

\* C19: a seconds value that is not negative, at millisecond resolution, is
\* the value parsed from the text written for it.
C19_RoundTrip ==
    (call.pc \in {"parsed", "invalid"} /\ call.written /\ WholeMs(call.value)) =>
        /\ call.pc = "parsed"
        /\ call.parsed.val * HalfMsPerMs = call.value

\* A value with hours of three digits and a millisecond remainder.
C19_Witness ==
    /\ call.pc = "parsed"
    /\ call.written
    /\ WholeMs(call.value)
    /\ call.value >= 100 * SecondsPerHour * MsPerSec * HalfMsPerMs
    /\ call.value % (MsPerSec * HalfMsPerMs) # 0
    /\ Len(call.text) = 13

\* The fields of a text, and the k-th of them from the right (1: seconds,
\* 2: minutes, 3: hours) as a number of milliseconds.
FieldsOf(text) == Split(Strip(text), ":")

\* A second, a minute, an hour, in milliseconds.
UnitMs(k) ==
    IF k = 1 THEN MsPerSec ELSE IF k = 2 THEN SecondsPerMinute * MsPerSec
    ELSE SecondsPerHour * MsPerSec

FieldMs(F, k) ==
    IF k = 1 THEN ParseFloat(F[Len(F)])
    ELSE LET n == ParseInt(F[Len(F) - k + 1]) IN [n EXCEPT !.val = @ * UnitMs(k)]

\* One to three fields, each a number that is not negative.
FieldsValid(F) ==
    /\ Len(F) \in 1..3
    /\ \A k \in 1..Len(F) : FieldMs(F, k).ok /\ FieldMs(F, k).val >= 0

\* The k-th field from the right is below 60 of its unit.
Below60(F, k) == FieldMs(F, k).val < 60 * UnitMs(k)

RECURSIVE TotalOfFields(_, _)
TotalOfFields(F, k) == IF k = 0 THEN 0 ELSE FieldMs(F, k).val + TotalOfFields(F, k - 1)

\* A text was given to _parse_timestamp_to_seconds, which is over.
TextParsed(c) == c.pc \in {"parsed", "invalid"} /\ ~c.written

\* Accepted exactly when the fields are valid and those of the set bounded
\* are below 60; the value is then hours * 3600 + minutes * 60 + seconds.
ParsedAs(c, F, bounded) ==
    /\ c.pc = "parsed" <=>
          /\ Strip(c.text) # <<>>
          /\ FieldsValid(F)
          /\ \A k \in bounded : Below60(F, k)
    /\ c.pc = "parsed" => c.parsed.val = TotalOfFields(F, Len(F))

\* C20, as stated: 1 to 3 fields, seconds, minutes, hours from the right,
\* give hours * 3600 + minutes * 60 + seconds; an empty text, more than 3
\* fields and a negative field are rejected; every field but the
\* most-significant one must be below 60, and the most-significant one (the
\* seconds of SS, the minutes of MM:SS, the hours of HH:MM:SS) has no upper
\* bound.
C20_MostSignificantUnbounded ==
    TextParsed(call) =>
        ParsedAs(call, FieldsOf(call.text), 1..(Len(FieldsOf(call.text)) - 1))

\* C20, as the code has it: seconds and minutes must be below 60 whenever
\* the text has two fields or more, so that only the seconds of SS and the
\* hours of HH:MM:SS have no upper bound.
C20_MinutesBounded ==
    TextParsed(call) =>
        ParsedAs(call, FieldsOf(call.text),
                 IF Len(FieldsOf(call.text)) = 1 THEN {} ELSE {1, 2})

\* A text MM:SS with 60 minutes or more and nothing else wrong is rejected.
C20_MinutesRejected ==
    /\ TextParsed(call)
    /\ call.pc = "invalid"
    /\ Len(FieldsOf(call.text)) = 2
    /\ FieldsValid(FieldsOf(call.text))
    /\ Below60(FieldsOf(call.text), 1)
    /\ ~Below60(FieldsOf(call.text), 2)

\* A value was given to _format_seconds_to_timestamp, which is over.
ValueWritten(c) == c.written /\ c.pc \in {"text", "parsed", "invalid"}

\* The value in halves of a millisecond that is formatted: negative ones
\* count as 0.
Formatted(value) == IF value < 0 THEN 0 ELSE value

\* The whole millisecond nearest to a number of halves, the higher one for a
\* half.
NearestHalfUp(halves) ==
    CHOOSE k \in {halves \div HalfMsPerMs, halves \div HalfMsPerMs + 1} :
        HalfMsPerMs * k - 1 <= halves /\ halves < HalfMsPerMs * k + 1

\* The whole millisecond nearest to a number of halves, the even one for a
\* half.
NearestHalfEven(halves) ==
    CHOOSE k \in {halves \div HalfMsPerMs, halves \div HalfMsPerMs + 1} :
        /\ HalfMsPerMs * k - 1 <= halves /\ halves <= HalfMsPerMs * k + 1
        /\ halves # HalfMsPerMs * k => k % 2 = 0

\* The text is HH:MM:SS of the whole milliseconds, with .mmm exactly when
\* their remainder is not zero.
RenderedAs(text, total_ms) ==
    /\ Len(Split(text, ":")) = 3
    /\ \A k \in 1..3 : Len(Split(text, ":")[k]) >= 2
    /\ _parse_timestamp_to_seconds(text) = Num(total_ms)
    /\ IndexOf(text, ".") # 0 <=> total_ms % MsPerSec # 0
    /\ IndexOf(text, ".") # 0 =>
          /\ Len(text) - IndexOf(text, ".") = 3
          /\ Len(Split(text, ":")[3]) = 6
    /\ IndexOf(text, ".") = 0 => Len(Split(text, ":")[3]) = 2

\* C21, as stated: the text written is HH:MM:SS of seconds * 1000 rounded to
\* whole milliseconds, a half going to the higher one, with .mmm exactly when
\* the millisecond remainder is not zero.
C21_RoundHalfUp ==
    ValueWritten(call) => RenderedAs(call.text, NearestHalfUp(Formatted(call.value)))

\* C21, as the code has it: a half goes to the even millisecond.
C21_RoundHalfEven ==
    ValueWritten(call) => RenderedAs(call.text, NearestHalfEven(Formatted(call.value)))

\* A value half-way between an even millisecond and the odd one above it
\* was written.
C21_HalfWritten ==
    /\ ValueWritten(call)
    /\ call.value > 0
    /\ call.value % HalfMsPerMs = 1
    /\ (call.value \div HalfMsPerMs) % 2 = 0

\* ------------------------------------------- the two loops that cut clips
\* Pairs of the .marks file whose clips are cut.
MaxClips == 3

\* The last position of c in s, 0 when there is none.
LastIndexOf(s, c) ==
    LET at == {i \in 1..Len(s) : s[i] = c} IN
    IF at = {} THEN 0 ELSE CHOOSE i \in at : \A j \in at : j <= i

\* The dots a name begins with.
RECURSIVE LeadingDots(_)
LeadingDots(name) ==
    IF name # <<>> /\ Head(name) = "." THEN 1 + LeadingDots(Tail(name)) ELSE 0

\* The extension of a file name: from its last dot on, the dots it begins
\* with aside.
ExtOfName(name) ==
    IF LastIndexOf(name, ".") <= LeadingDots(name) THEN <<>>
    ELSE SubSeq(name, LastIndexOf(name, "."), Len(name))

\* os.path.splitext(path)[1].
splitext_ext(path) == ExtOfName(SubSeq(path, LastIndexOf(path, "/") + 1, Len(path)))

\* video_ext of both loops.
video_ext_of(video_path) ==
    IF splitext_ext(video_path) = <<>> THEN <<".", "m", "p", "4">>
    ELSE splitext_ext(video_path)

\* f"clip_{i:03d}{video_ext}".
out_name_of(i, video_ext) == <<"clip_">> \o ZeroPad(DigitsOf(i), 3) \o video_ext

\* The seconds of the model (milliseconds) as _format_seconds_to_timestamp
\* takes them.
TimestampOfSeconds(sec) == _format_seconds_to_timestamp(sec * HalfMsPerMs)

\* Absolute paths of videos: with an extension, with none, with a dot in the
\* directory only, with a name that begins with a dot, with two dots.
VideoPaths ==
    { <<"/", "d", "/", "v", ".", "m", "k", "v">>,
      <<"/", "d", "/", "v">>,
      <<"/", "d", ".", "d", "/", "v">>,
      <<"/", "d", "/", ".", "v">>,
      <<"/", "d", "/", "v", ".", "a", ".", "M", "P", "4">> }

\* The pairs a .marks file is made of: one with two times, one with UNKNOWN.
CutPairs == { PairLines(<<"5">>, <<"1", ":", "1", "0">>), PairLines(UNKNOWN, <<"5">>) }

RECURSIVE FilesOfPairs(_)
FilesOfPairs(n) ==
    IF n = 0 THEN {<<>>} ELSE {f \o q : f \in FilesOfPairs(n - 1), q \in CutPairs}

CutMarksFiles == UNION {FilesOfPairs(n) : n \in 1..MaxClips}

\* The segments main cuts: those of its pipeline (run with --align-mode
\* none), with the boundaries the loop reads.
MainItem(seg) ==
    [pair_index |-> seg.pair_index, start |-> seg.start_final, end |-> seg.end_final]

MainAligned(converted) ==
    IF ~converted.ok THEN converted
    ELSE align_segments_with_keyframes(converted.value, "none", NotStarted)

MainConverted(built) == MainAligned(_convert_segments_to_seconds(built[1]))

MainPlan(entries) ==
    IF ~entries.ok THEN entries ELSE MainConverted(cli_build_segments_from_entries(entries.value))

\* The segments on_export_clicked hands to run_ffmpeg_for_segments: those
\* on_open_video took from load_segments_from_marks (for a video in which
\* ffprobe finds no keyframe).
ExportItem(seg) == [pair_index |-> seg.index, start |-> seg.start_sec, end |-> seg.end_sec]

ExportAligned(raw_segments) ==
    IF ~raw_segments.ok THEN raw_segments
    ELSE align_segments_with_keyframes(raw_segments.value, GuiAlignMode, Ran(1, <<>>))

ExportPlan(entries) == ExportAligned(SegmentsOfEntries(entries))

\* The items of a plan.
ItemsOf(entry, plan) ==
    IF entry = "main" THEN [k \in 1..Len(plan) |-> MainItem(plan[k])]
    ELSE [k \in 1..Len(plan) |-> ExportItem(ClipSegments(plan)[k])]

\* A run of generate_clips.main (with or without --dry-run) or of the GUI
\* up to on_export_clicked, on a video and its .marks file.
CutCalled(entry, video_path, marks, dry_run) ==
    [pc |-> "called", entry |-> entry, video_path |-> video_path, marks |-> marks,
     dry_run |-> dry_run, segments |-> <<>>, error |-> "", clip_index |-> 0,
     success_count |-> 0, fail_count |-> 0, named |-> <<>>, runs |-> <<>>]

InitCut ==
    /\ ledger = [r \in Recordings |-> <<>>]
    /\ line_counts = [r \in Recordings |-> NoneCount]
    /\ ev = [e \in Events |-> EvNew]
    /\ listener_running = TRUE
    /\ marks_file = <<>>
    /\ gui = GuiIdle
    /\ cli = CliIdle
    /\ \E video_path \in VideoPaths, marks \in CutMarksFiles :
          \/ \E dry_run \in BOOLEAN : call = CutCalled("main", video_path, marks, dry_run)
          \/ call = CutCalled("export", video_path, marks, FALSE)

\* Everything before the loop: the segments are made, or the run ends.
Planned(c, plan) ==
    IF ~plan.ok THEN [c EXCEPT !.pc = "raised", !.error = plan.error]
    ELSE IF plan.value = <<>> THEN [c EXCEPT !.pc = "nothing"]
    ELSE [c EXCEPT !.pc = "cutting", !.segments = ItemsOf(c.entry, plan.value)]

cut_plan ==
    /\ call.pc = "called"
    /\ call' = Planned(call, IF call.entry = "main"
                             THEN MainPlan(_parse_marks_file(call.marks))
                             ELSE ExportPlan(_parse_marks_file(call.marks)))
    /\ UNCHANGED <<mvars, marks_file, gui, cli>>

\* A pass numbering its clip by the pair it comes from.
NameOfPass_ByPair(c, i) ==
    [clip_index |-> c.segments[i].pair_index, pair_index |-> c.segments[i].pair_index,
     out_name |-> out_name_of(c.segments[i].pair_index, video_ext_of(c.video_path))]

\* What a pass of the loop says of its clip, and what its ffmpeg run was.
NameOfPass(c, i) ==
    [clip_index |-> i, pair_index |-> c.segments[i].pair_index,
     out_name |-> out_name_of(i, video_ext_of(c.video_path))]

RunOfPass(c, i, result) ==
    [clip_index |-> i, ss |-> TimestampOfSeconds(c.segments[i].start),
     to |-> TimestampOfSeconds(c.segments[i].end),
     out_name |-> out_name_of(i, video_ext_of(c.video_path)),
     started |-> result.started, returncode |-> result.returncode]

\* A pass that leaves the loop when ffmpeg returns another code than 0.
Passed_StopAtFailure(c, i, result) ==
    IF c.dry_run
    THEN [c EXCEPT !.clip_index = i, !.named = Append(@, NameOfPass(c, i))]
    ELSE IF ~result.started
    THEN [c EXCEPT !.pc = "raised", !.error = "FileNotFoundError", !.clip_index = i,
                   !.named = Append(@, NameOfPass(c, i)),
                   !.runs = Append(@, RunOfPass(c, i, result))]
    ELSE [c EXCEPT !.pc = IF result.returncode = 0 THEN @ ELSE "done",
                   !.clip_index = i,
                   !.named = Append(@, NameOfPass(c, i)),
                   !.runs = Append(@, RunOfPass(c, i, result)),
                   !.success_count = IF result.returncode = 0 THEN @ + 1 ELSE @,
                   !.fail_count = IF result.returncode = 0 THEN @ ELSE @ + 1]

\* One pass of the loop of main or of run_ffmpeg_for_segments: with
\* --dry-run the name is printed and nothing is run; otherwise ffmpeg is run
\* and its return code counted; an exception of subprocess.run ends the loop.
Passed(c, i, result) ==
    IF c.dry_run
    THEN [c EXCEPT !.clip_index = i, !.named = Append(@, NameOfPass(c, i))]
    ELSE IF ~result.started
    THEN [c EXCEPT !.pc = "raised", !.error = "FileNotFoundError", !.clip_index = i,
                   !.named = Append(@, NameOfPass(c, i)),
                   !.runs = Append(@, RunOfPass(c, i, result))]
    ELSE [c EXCEPT !.clip_index = i,
                   !.named = Append(@, NameOfPass(c, i)),
                   !.runs = Append(@, RunOfPass(c, i, result)),
                   !.success_count = IF result.returncode = 0 THEN @ + 1 ELSE @,
                   !.fail_count = IF result.returncode = 0 THEN @ ELSE @ + 1]

cut_pass(result) ==
    /\ call.pc = "cutting"
    /\ call.clip_index < Len(call.segments)
    /\ call' = Passed(call, call.clip_index + 1, result)
    /\ UNCHANGED <<mvars, marks_file, gui, cli>>

\* The loop is over: the counts are reported.
cut_done ==
    /\ call.pc = "cutting"
    /\ call.clip_index = Len(call.segments)
    /\ call' = [call EXCEPT !.pc = "done"]
    /\ UNCHANGED <<mvars, marks_file, gui, cli>>

NextCut ==
    \/ cut_plan
    \/ \E result \in FfmpegOutcomes : cut_pass(result)
    \/ cut_done

SpecCut == InitCut /\ [][NextCut]_vars

\* --------------------------------------- properties of the cutting loops
\* The loop runs ffmpeg, and has segments to cut.
Cutting(c) == c.pc \in {"cutting", "done", "raised"} /\ c.segments # <<>> /\ ~c.dry_run

\* The runs of ffmpeg so far are those of the first segments of the plan,
\* one each, in the order of the plan.
RunsInOrder(c) ==
    /\ Len(c.runs) = c.clip_index
    /\ Len(c.runs) <= Len(c.segments)
    /\ \A i \in 1..Len(c.runs) :
          /\ c.runs[i].clip_index = i
          /\ c.runs[i].ss = TimestampOfSeconds(c.segments[i].start)
          /\ c.runs[i].to = TimestampOfSeconds(c.segments[i].end)

\* The counts are those of the runs that returned 0 and of the others.
Counted(c) ==
    /\ c.success_count =
          Cardinality({i \in 1..Len(c.runs) : c.runs[i].started /\ c.runs[i].returncode = 0})
    /\ c.fail_count =
          Cardinality({i \in 1..Len(c.runs) : c.runs[i].started /\ c.runs[i].returncode # 0})

\* At the end every segment was attempted and counted.
AllCounted(c) ==
    c.pc = "done" =>
        /\ Len(c.runs) = Len(c.segments)
        /\ c.success_count + c.fail_count = Len(c.segments)

\* C22, as stated: every planned segment is attempted exactly once, in plan
\* order, whatever became of the earlier cuts: nothing ends the loop before
\* the last segment, and at the end successCount + failureCount is the number
\* of planned segments, successCount being that of the cuts that returned 0.
C22_EveryCutAttempted ==
    Cutting(call) =>
        /\ RunsInOrder(call)
        /\ Counted(call)
        /\ AllCounted(call)
        /\ call.pc # "raised"

\* C22, as the code has it: the loop goes on after a cut that returned
\* another code than 0, and ends before the last segment exactly when ffmpeg
\* could not be started for a cut: that cut is the last one attempted, it is
\* counted neither as a success nor as a failure, and no count is reported.
C22_EveryCutAttemptedIfStarted ==
    Cutting(call) =>
        /\ RunsInOrder(call)
        /\ Counted(call)
        /\ AllCounted(call)
        /\ \A i \in 1..(Len(call.runs) - 1) : call.runs[i].started
        /\ call.pc = "raised" <=>
              (call.runs # <<>> /\ ~call.runs[Len(call.runs)].started)

\* A cut failed, the next could not be started, a third was never attempted.
C22_CutsAbandoned ==
    /\ Cutting(call)
    /\ call.pc = "raised"
    /\ Len(call.runs) = 2
    /\ call.runs[1].returncode # 0
    /\ Len(call.segments) = 3

\* The extension of the videos of the model, with its dot; none for a name
\* without a dot and for a name that only begins with one.
ExtensionOf(video_path) ==
    IF video_path = <<"/", "d", "/", "v", ".", "m", "k", "v">> THEN <<".", "m", "k", "v">>
    ELSE IF video_path = <<"/", "d", "/", "v", ".", "a", ".", "M", "P", "4">>
    THEN <<".", "M", "P", "4">>
    ELSE <<>>

\* k written with three digits (k < 1000).
ThreeDigits(k) ==
    <<Digits[(k \div 100) + 1], Digits[((k \div 10) % 10) + 1], Digits[(k % 10) + 1]>>

\* clip_<k, three digits><the extension of the video, .mp4 when it has none>.
ClipName(k, video_path) ==
    <<"clip_">> \o ThreeDigits(k)
        \o (IF ExtensionOf(video_path) = <<>> THEN <<".", "m", "p", "4">>
            ELSE ExtensionOf(video_path))

\* The pairs of the ledger that are cut: every one for the GUI, those
\* without UNKNOWN for main.
PairsCut(c, L) ==
    IF c.entry = "main" THEN {k \in Pairs(L) : ~UnknownPair(L, k)} ELSE Pairs(L)

\* The i-th smallest element of a set of numbers.
Ranked(S, i) == CHOOSE k \in S : Cardinality({j \in S : j <= k}) = i

\* The clips named so far are the first of the plan, numbered 1, 2, ... in
\* the order of their pairs, each with the number its pair has in the ledger.
NamedInSequence(c, L) ==
    /\ Len(c.named) = c.clip_index
    /\ Len(c.segments) = Cardinality(PairsCut(c, L))
    /\ c.pc = "done" => Len(c.named) = Len(c.segments)
    /\ \A i \in 1..Len(c.named) :
          /\ c.named[i].clip_index = i
          /\ c.named[i].out_name = ClipName(i, c.video_path)
          /\ c.named[i].pair_index = Ranked(PairsCut(c, L), i)
          /\ i > 1 => c.named[i - 1].pair_index < c.named[i].pair_index

AppendedTo(e, r) ==
    /\ ev[e].video_basename = r
    /\ ev[e].pc = "increment" \/ (ev[e].pc = "done" /\ ev[e].outcome = "appended")

\* The mark lines the events up to e appended to the ledger of r, in the
\* order in which the events were handled.
RECURSIVE WrittenUpTo(_, _)
WrittenUpTo(e, r) ==
    IF e = 0 THEN <<>>
    ELSE WrittenUpTo(e - 1, r)
            \o (IF AppendedTo(e, r) THEN MarkLine(ev[e].timestamp, ev[e].tag) ELSE <<>>)

\* The ledger of r was empty or missing at the start, and something was
\* appended to it since.
WrittenFromEmpty(r) == ledger[r] # <<>> /\ ledger[r] = WrittenUpTo(MaxEvents, r)

\* The records of a ledger, as the clip generator reads them, have the tags
\* start, end, start, ... from the first one on.
TagsAlternate(L) ==
    /\ L.ok
    /\ \A i \in 1..Len(L.value) : L.value[i].tag = (IF i % 2 = 1 THEN "start" ELSE "end")

\* The count of records is odd exactly when the last record is a start.
OddWhenOpen(L) ==
    L.value # <<>> => (Len(L.value) % 2 = 1 <=> L.value[Len(L.value)].tag = "start")

RecordsAlternate(file) ==
    /\ TagsAlternate(ReadEntries(FileLines(file)))
    /\ OddWhenOpen(ReadEntries(FileLines(file)))
    /\ Len(ReadEntries(FileLines(file)).value) = RecordCount(file)

\* C24, as stated: after any sequence of successful triggers on a recording
\* whose ledger was empty or missing at first, the tags of the ledger's
\* records alternate start, end, ... from the first record, and the count of
\* records is odd exactly when the last record is a start.
C24_TagsAlternate ==
    \A r \in Recordings : WrittenFromEmpty(r) => RecordsAlternate(ledger[r])

\* A timestamp that is one field of one line: no comma, no line break.
OneField(timestamp) == IndexOf(timestamp, COMMA) = 0 /\ IndexOf(timestamp, LF) = 0

\* The tags of the marks appended to the ledger of r alternate from start.
AppendedAlternate(r) ==
    \A e \in Events : AppendedTo(e, r) =>
        ev[e].tag = (IF Cardinality({d \in 1..e : AppendedTo(d, r)}) % 2 = 1
                     THEN "start" ELSE "end")

\* C24, as the code has it: the tags the triggers append alternate from
\* start, and the records of the ledger do when no accepted clipboard text
\* holds a comma or a line break.
C24_TagsAlternateOfOneField ==
    \A r \in Recordings : WrittenFromEmpty(r) =>
        /\ AppendedAlternate(r)
        /\ (\A e \in Events : AppendedTo(e, r) => OneField(ev[e].timestamp))
              => RecordsAlternate(ledger[r])

\* Two marks were appended to an empty ledger, the first with a clipboard
\* text of two lines: the ledger has three records.
C24_LineBreakAppended ==
    \E r \in Recordings :
        /\ WrittenFromEmpty(r)
        /\ \A e \in Events : AppendedTo(e, r)
        /\ IndexOf(ev[1].timestamp, LF) # 0
        /\ RecordCount(ledger[r]) = 3

\* --------------------------------- the marker beside an edited ledger
\* The ledger is a file in the marks directory: between two steps of the
\* marker the user or another program can replace it.  What an edit leaves.
EditedLedgers ==
    { <<>>,
      <<"3", COMMA, SP, "start", LF>>,
      <<"3", COMMA, SP, "start", LF, "5", COMMA, SP, "end", LF, "8", COMMA, SP, "start", LF>> }

\* The ledger of recording r is replaced from outside the marker.
ExternalEdit(r, file) ==
    /\ ledger[r] # file
    /\ \E e \in Events : ev[e].pc # "done"
    /\ ledger' = [ledger EXCEPT ![r] = file]
    /\ UNCHANGED <<line_counts, ev, listener_running, gvars>>

\* The clipboard of the runs with edits: a stale value is "7" or "3".
EditClipData == { <<"7">>, <<"3">>, <<"9", LF>> }

NextEdit ==
    \/ \E e \in Events, p \in BOOLEAN : Click(e, "middle", p)
    \/ \E e \in Events : handle_click(e)
    \/ \E e \in Events, fg \in Foregrounds : GetForeground(e, fg)
    \/ \E e \in Events, readOk \in BOOLEAN : GetLineCount(e, readOk)
    \/ \E e \in Events, readOk \in BOOLEAN : GetReference(e, readOk)
    \/ \E e \in Events, data \in EditClipData : InitialRead(e, data)
    \/ \E e \in Events, data \in EditClipData : RetryRead(e, data)
    \/ \E e \in Events : RetryExhausted(e)
    \/ \E e \in Events, ok \in BOOLEAN : AppendMark(e, ok)
    \/ \E e \in Events : IncrementLineCount(e)
    \/ \E file \in EditedLedgers : ExternalEdit("A", file)

SpecEdit == Init /\ [][NextEdit]_vars

\* The handler of e has asked for the count of its recording r.
Counted_For(e, r) ==
    /\ ev[e].video_basename = r
    /\ ev[e].pc \in {"reference", "initial_read", "retry", "append", "increment", "done"}

\* The first event that asked for the count of r: the one that read the file.
FirstCounted(r) == CHOOSE e \in Events : Counted_For(e, r) /\ \A d \in 1..(e - 1) : ~Counted_For(d, r)

\* The marks appended for r and accounted in the cache before e was handled.
AppendedBefore(e, r) ==
    Cardinality({d \in 1..(e - 1) : ev[d].video_basename = r /\ ev[d].pc = "done"
                                      /\ ev[d].outcome = "appended"})

\* The count the cache holds for e: the count read at first plus one for
\* each append since.
CountFromFirst(e, r) == ev[FirstCounted(r)].line_count + AppendedBefore(e, r)

\* C25: the count of a recording is read from the ledger file at most once,
\* by the first trigger for it; every later trigger uses the cached value,
\* which grows by one with each successful append and is never read again.
\* The tag of the k-th trigger since the read follows the parity of the
\* count read at first plus the appends since, whatever the ledger file has
\* become in between.
C25_CountCachedOnce ==
    \A r \in Recordings :
        /\ line_counts[r] = NoneCount <=> ~\E e \in Events : Counted_For(e, r)
        /\ \A e \in Events : Counted_For(e, r) =>
              /\ ev[e].line_count = CountFromFirst(e, r)
              /\ ev[e].tag = TagFor(CountFromFirst(e, r))
              /\ line_counts[r] = CountFromFirst(MaxEvents + 1, r)

\* The ledger was emptied after the first trigger appended to it: the second
\* trigger still counts on from the cached value, and appends an end to a
\* file that holds nothing else.
C25_Witness ==
    /\ ev[1].pc = "done" /\ ev[1].outcome = "appended" /\ ev[1].video_basename = "A"
    /\ ev[1].line_count = 0
    /\ ev[2].pc = "increment" /\ ev[2].video_basename = "A"
    /\ ev[2].tag = "end"
    /\ ledger["A"] = MarkLine(ev[2].timestamp, "end")

\* ------------------------------------------- the marker's progress
\* The steps of the handler of event e, which the listener thread runs: a
\* step that can be taken is taken (a sleep ends, a read returns).
Handler(e) ==
    \/ handle_click(e)
    \/ \E fg \in Foregrounds : GetForeground(e, fg)
    \/ \E readOk \in BOOLEAN : GetLineCount(e, readOk)
    \/ \E readOk \in BOOLEAN : GetReference(e, readOk)
    \/ \E data \in ClipData : InitialRead(e, data)
    \/ \E data \in ClipData : RetryRead(e, data)
    \/ RetryExhausted(e)
    \/ \E ok \in BOOLEAN : AppendMark(e, ok)
    \/ IncrementLineCount(e)

\* The marker with a listener thread that keeps running.
SpecLive == Spec /\ \A e \in Events : WF_vars(Handler(e))

\* 1 + floor((D_max - D_init) / D_retry), the durations in tenths of a second.
ReadBudget == 1 + ((30 - 10) \div 2)

\* The event is a trigger: a middle press over PotPlayer, being handled.
Triggered(e) ==
    ev[e].pc \in {"count", "reference", "initial_read", "retry", "append", "increment"}

\* The event ended in an append, or in an abort (the append raised).
Resolved(e) == ev[e].pc = "done" /\ ev[e].outcome \in {"appended", "error"}

\* C26: every triggered event resolves.  Whatever the clipboard readings,
\* the retry loop ends after at most 1 + floor((D_max - D_init) / D_retry)
\* reads of the clipboard (11), and the event ends in an append or in an
\* abort: none waits for the clipboard forever, none is cancelled.
C26_EveryTriggerResolves ==
    /\ [](\A e \in Events : Len(ev[e].readings) <= ReadBudget)
    /\ \A e \in Events : Triggered(e) ~> Resolved(e)

\* A handler that read a stale clipboard until its budget ran out: ten
\* reads (the waits are sums of doubles, 2.8000000000000003 + 0.2 > 3.0).
C26_Witness ==
    \E e \in Events :
        /\ ev[e].pc = "append"
        /\ ev[e].timestamp = ev[e].reference_timestamp
        /\ Len(ev[e].readings) = ReadBudget - 1
        /\ \A i \in 1..Len(ev[e].readings) : ev[e].readings[i] = ev[e].reference_timestamp

\* ------------------------------------- validation comes before cutting
\* The entry point stopped on an error of the ledger (not of a tool).
FailedValidating(c) == c.error # "" /\ ~FailedAligning(c)

NothingCut(c) == c.clip_index = 0 /\ c.success_count = 0 /\ c.fail_count = 0

\* Every pair of the ledger passes the checks (in generate_clips, those
\* skipped for UNKNOWN apart).
AllValidated(L, skip_unknown) ==
    /\ ValidAlternating(L)
    /\ _parse_marks_file(marks_file).ok
    /\ \A k \in Pairs(L) : (skip_unknown /\ UnknownPair(L, k)) \/ ProperPair(L, k)

\* C27: when the validation of the ledger fails at any stage, no segment
\* list is returned (the GUI holds none, so that it exports nothing) and no
\* cut is executed; every pair of the ledger has passed its checks before
\* the first cut, so that an error in a late pair leaves no clip of an
\* earlier one.
C27_ValidatedBeforeCut ==
    /\ FailedValidating(gui) => gui.pc = "error" /\ gui.segments = <<>>
    /\ FailedValidating(cli) => cli.pc = "exit1" /\ NothingCut(cli)
    /\ gui.pc = "loaded" => AllValidated(Ledger, FALSE)
    /\ cli.pc \in {"cutting", "crashed"} => AllValidated(Ledger, TRUE)
    /\ ~NothingCut(cli) => cli.error \in {"", "FileNotFoundError"}

\* The second pair of two has a timestamp that is no time: both entry
\* points stop on it, and the first pair, which is in order, was not cut.
C27_Witness ==
    /\ gui.pc = "error" /\ gui.error = "InvalidTimestamp" /\ gui.at = <<2>>
    /\ cli.pc = "exit1" /\ cli.error = "InvalidTimestamp" /\ cli.at = <<2>>
    /\ ProperPair(Ledger, 1)
    /\ NothingCut(cli)

\* --------------------------------- properties of the reference timestamp
\* The handler of e has its reference and has not yet written: the ledger
\* is still the one the reference was read from.
ReferenceTaken(e) == ev[e].pc \in {"initial_read", "retry", "append"}

\* The last line of the file that is not blank, 0 when it has none.
LastNonBlank(lines) ==
    IF \A i \in 1..Len(lines) : Strip(lines[i]) = <<>> THEN 0
    ELSE CHOOSE i \in 1..Len(lines) :
            /\ Strip(lines[i]) # <<>>
            /\ \A j \in (i + 1)..Len(lines) : Strip(lines[j]) = <<>>

\* The timestamp of a record: what stands before its first comma.
TimestampField(record) ==
    IF IndexOf(record, COMMA) = 0 THEN Strip(record)
    ELSE Strip(SubSeq(record, 1, IndexOf(record, COMMA) - 1))

\* The timestamp of the last record of the file.
LastRecordTimestamp(lines) ==
    IF LastNonBlank(lines) = 0 THEN NoneText
    ELSE TimestampField(lines[LastNonBlank(lines)])

\* The last line of the file with a text before its first comma, 0 when it
\* has none.
LastStamped(lines) ==
    IF \A i \in 1..Len(lines) : TimestampField(lines[i]) = <<>> THEN 0
    ELSE CHOOSE i \in 1..Len(lines) :
            /\ TimestampField(lines[i]) # <<>>
            /\ \A j \in (i + 1)..Len(lines) : TimestampField(lines[j]) = <<>>

\* The timestamp of the last record of the file that has one.
LastStampedTimestamp(lines) ==
    IF LastStamped(lines) = 0 THEN NoneText
    ELSE TimestampField(lines[LastStamped(lines)])

\* Without a reference the first reading is taken: one read, after the
\* initial delay, no retry.
FirstReadingAccepted(c) ==
    /\ c.pc # "retry"
    /\ c.pc = "append" =>
          /\ Len(c.readings) = 1
          /\ c.timestamp = c.readings[1]
          /\ c.total_wait = CLIPBOARD_INITIAL_DELAY_SEC

HoldsReading(e) == ev[e].pc \in {"retry", "append"}

\* A reading is a text: never absent, never empty.  An absent or empty
\* clipboard reads as UNKNOWN.
ReadingsAreTexts ==
    \A e \in Events : \A i \in 1..Len(ev[e].readings) :
        ev[e].readings[i] \notin {NoneText, <<>>}

\* The sentinel is compared and written like any reading: a handler goes on
\* retrying exactly on a last reading equal to its reference, UNKNOWN
\* included, and what is appended is the reading it held.
SentinelAsReading ==
    \A e \in Events :
        /\ HoldsReading(e) =>
              /\ ev[e].timestamp = ev[e].readings[Len(ev[e].readings)]
              /\ ev[e].pc = "retry" => ev[e].timestamp = ev[e].reference_timestamp
        /\ ev[e].pc = "increment" =>
              EndsWith(ledger[ev[e].video_basename], MarkLine(ev[e].timestamp, ev[e].tag))

\* The records of the mark the event appended all have a timestamp.
StampedRecords(e) ==
    \A i \in 1..Len(FileLines(MarkLine(ev[e].timestamp, ev[e].tag))) :
        Strip(FileLines(MarkLine(ev[e].timestamp, ev[e].tag))[i]) # <<>> =>
            TimestampField(FileLines(MarkLine(ev[e].timestamp, ev[e].tag))[i]) # <<>>

\* C29, as stated: an absent or empty clipboard reading is taken as UNKNOWN,
\* at the initial read and at every retry; the sentinel takes part in the
\* staleness comparison and is what is appended when accepted; no record
\* with an empty timestamp is ever written.
C29_NoEmptyTimestamp ==
    /\ ReadingsAreTexts
    /\ SentinelAsReading
    /\ \A e \in Events, r \in Recordings : AppendedTo(e, r) => StampedRecords(e)

\* C29, as the code has it: the timestamp text appended is never empty, and
\* no record has an empty timestamp when the accepted clipboard text holds
\* no comma.
C29_NoEmptyTimestampWithoutComma ==
    /\ ReadingsAreTexts
    /\ SentinelAsReading
    /\ \A e \in Events, r \in Recordings : AppendedTo(e, r) =>
          /\ ev[e].timestamp \notin {NoneText, <<>>}
          /\ IndexOf(ev[e].timestamp, COMMA) = 0 => StampedRecords(e)

\* An empty clipboard was appended as UNKNOWN; the next handler read an
\* empty clipboard again, retried on the sentinel, then read ",9" and
\* appended the record ",9, end", whose timestamp is empty.
C29_CommaFirst ==
    /\ AppendedTo(1, "A") /\ ev[1].pc = "done" /\ ev[1].timestamp = UNKNOWN
    /\ ev[2].pc = "increment" /\ ev[2].video_basename = "A"
    /\ ev[2].reference_timestamp = UNKNOWN
    /\ ev[2].readings = <<UNKNOWN, <<COMMA, "9">>>>
    /\ ~StampedRecords(2)

\* ------------------------------------- recordings apart from each other
\* A step of the handler of event e.
Handled(e) == ev'[e] # ev[e]

\* The ledger and the cached count of recording r are left as they are.
Untouched(r) == ledger'[r] = ledger[r] /\ line_counts'[r] = line_counts[r]

C30_Step ==
    \A e \in Events : Handled(e) =>
        \A r \in Recordings : r # ev'[e].video_basename => Untouched(r)

\* C30: handling an event for recording A leaves the ledger and the cached
\* count of every other recording B unchanged, in whatever order the events
\* on A and B come.
C30_OtherRecordingsUntouched == [][C30_Step]_vars

\* A mark was appended for A, then one for the recording of the windows
\* without title: A's ledger and count are those the first handler left.
C30_Witness ==
    /\ ev[1].pc = "done" /\ ev[1].outcome = "appended" /\ ev[1].video_basename = "A"
    /\ ev[2].pc = "done" /\ ev[2].outcome = "appended"
    /\ ev[2].video_basename = "unknown_video"
    /\ ledger["A"] = MarkLine(ev[1].timestamp, "start")
    /\ line_counts["A"] = 1
    /\ line_counts["unknown_video"] = 1

\* ------------------------------------- alignment, segment by segment
Reverse(q) == [k \in 1..Len(q) |-> q[Len(q) + 1 - k]]

\* The alignment of the call has ended without an exception.
AlignedCall == call.pc \in {"aligned", "returned"}

\* What the k-th segment of the call becomes when it is aligned alone.
AlignedAlone(k) ==
    align_segments_with_keyframes(<<call.segments[k]>>, call.align_mode, call.ffprobe)

\* What the segments of the call become when aligned in the reverse order.
AlignedReversed ==
    align_segments_with_keyframes(Reverse(call.segments), call.align_mode, call.ffprobe)

\* C31: alignment is independent from segment to segment.  The final
\* boundaries, the flag and the note of a segment depend on its raw
\* boundaries, the keyframe list and the mode only: aligned alone, or with
\* the list in another order, each segment gets what it gets in the call
\* on the whole list.
C31_SegmentsIndependent ==
    AlignedCall =>
        /\ Len(call.aligned) = Len(call.segments)
        /\ AlignedReversed.ok
        /\ \A k \in 1..Len(call.segments) :
              /\ AlignedAlone(k).ok
              /\ AlignedAlone(k).value = <<call.aligned[k]>>
              /\ AlignedReversed.value[Len(call.segments) + 1 - k] = call.aligned[k]

\* Two segments of one call, the first aligned to keyframes, the second
\* fallen back because its boundaries snap to the same keyframe.
C31_Witness ==
    /\ AlignedCall
    /\ Len(call.aligned) = 2
    /\ call.aligned[1].alignment_note = "aligned_to_keyframe"
    /\ call.aligned[2].alignment_note = "alignment_degenerate_fallback"

\* ---------------------------------- the aligned interval in the raw one
\* The times of a sequence of keyframes.
TimesOf(keyframes) == {keyframes[i] : i \in 1..Len(keyframes)}

\* Both final boundaries are keyframes, and the final interval lies in the
\* raw one.
InsideRaw(seg, keyframes) ==
    /\ seg.start_final \in TimesOf(keyframes)
    /\ seg.end_final \in TimesOf(keyframes)
    /\ seg.start_sec <= seg.start_final
    /\ seg.start_final < seg.end_final
    /\ seg.end_final <= seg.end_sec

Appends(e) == ev[e].pc = "append" /\ ev'[e].pc = "increment"

\* The <<timestamp, tag>> of the entries the parser reads.
Stamps(entries) ==
    [i \in 1..Len(entries) |-> <<entries[i].timestamp_raw, entries[i].tag>>]

\* The ledger, which the parser read as the entries old, reads with the
\* mark appended as the same entries and one more, the mark's; and the
\* mark's timestamp is the next reference.
ReadsBack(old, new, file, timestamp, tag) ==
    /\ new.ok
    /\ Stamps(new.value) = Append(Stamps(old.value), <<timestamp, tag>>)
    /\ _get_last_mark_timestamp(file, TRUE) = timestamp

AppendReadsBack(e, r) ==
    ReadEntries(FileLines(ledger[r])).ok =>
        ReadsBack(ReadEntries(FileLines(ledger[r])), ReadEntries(FileLines(ledger'[r])),
                  ledger'[r], ev'[e].timestamp, ev[e].tag)

\* The file is empty, or its last line is ended.
Terminated(file) == file = <<>> \/ file[Len(file)] = LF

C34_Step ==
    \A e \in Events : Appends(e) => AppendReadsBack(e, ev[e].video_basename)

\* C34, as stated: every record appended reads back as the same record.  For
\* any accepted clipboard text, the line append_mark_line writes is parsed
\* as one entry with that timestamp and that tag, and
\* _get_last_mark_timestamp returns that timestamp as the next reference,
\* texts with a comma or a line break included.
C34_RecordReadsBack == [][C34_Step]_vars

C34_StepOfOneField ==
    \A e \in Events :
        (/\ Appends(e)
         /\ OneField(ev'[e].timestamp)
         /\ Terminated(ledger[ev[e].video_basename]))
            => AppendReadsBack(e, ev[e].video_basename)

\* C34, as the code has it: the record reads back when the accepted text
\* holds neither a comma nor a line break, and the last line of the ledger
\* was ended.
C34_OneFieldReadsBack == [][C34_StepOfOneField]_vars

\* The text "7,9" was appended to an empty ledger: the parser refuses the
\* line (its tag reads "9, start") and the next reference is "7".
C34_CommaNotReadBack ==
    \E e \in Events :
        /\ ev[e].pc = "increment"
        /\ ev[e].timestamp = <<"7", COMMA, "9">>
        /\ ledger[ev[e].video_basename] = MarkLine(ev[e].timestamp, ev[e].tag)
        /\ ~ReadEntries(FileLines(ledger[ev[e].video_basename])).ok
        /\ _get_last_mark_timestamp(ledger[ev[e].video_basename], TRUE) = <<"7">>

\* ----------------------------------------- the count and the ledger
\* No handler is running.
AtRest == \A e \in Events : ~InFlight(e)

\* The count of recording r is in the cache.
Populated(r) == line_counts[r] # NoneCount

CountIsLines(r) == line_counts[r] = Len(FileLines(ledger[r]))

\* C37, as stated: the ledger not being modified from outside, after any
\* sequence of events the cached count of a recording, once populated, is
\* the number of lines of its ledger.
C37_CountIsLines ==
    AtRest => \A r \in Recordings : Populated(r) => CountIsLines(r)

\* The ledger of r as it was before the marker appended to it.
InitialLedger(r) ==
    SubSeq(ledger[r], 1, Len(ledger[r]) - Len(WrittenUpTo(MaxEvents, r)))

\* The first read of the count of r succeeded, the last line of the ledger
\* was ended, and no text appended since holds a line break.
CountedLineByLine(r) ==
    /\ ev[FirstCounted(r)].line_count = Len(FileLines(InitialLedger(r)))
    /\ Terminated(InitialLedger(r))
    /\ \A e \in Events : AppendedTo(e, r) => IndexOf(ev[e].timestamp, LF) = 0

\* C37, as the code has it: the cached count is the count first read plus
\* the appends since; it is the number of lines of the ledger when that
\* read succeeded, the ledger's last line was ended and no accepted
\* clipboard text holds a line break.
C37_CountIsLinesIfLineByLine ==
    AtRest => \A r \in Recordings : Populated(r) =>
        /\ line_counts[r] = CountFromFirst(MaxEvents + 1, r)
        /\ CountedLineByLine(r) => CountIsLines(r)

\* One mark with the clipboard text "7\n9" on an empty ledger: two lines in
\* the file, a count of one.
C37_TwoLinesOneCount ==
    /\ AtRest
    /\ ev[1].outcome = "appended" /\ ev[1].video_basename = "A"
    /\ ev[1].timestamp = <<"7", LF, "9">>
    /\ ledger["A"] = MarkLine(ev[1].timestamp, "start")
    /\ line_counts["A"] = 1
    /\ Len(FileLines(ledger["A"])) = 2

\* -------------------------------- the two pipelines on the same ledger
\* No timestamp of the .marks file is UNKNOWN.
NoUnknown == IndexOf(marks_file, "UNKNOWN") = 0

\* load_segments_from_marks is past its parsing and pairing, main past its
\* parsing, pairing and conversion.
GuiDecided == gui.pc \notin {"idle", "parsed"}

CliDecided == cli.pc \notin {"idle", "parsed", "built"}

\* The <<pair_index, start_sec, end_sec>> of the segments.
Triples(segments) ==
    [k \in 1..Len(segments) |->
        <<segments[k].pair_index, segments[k].start_sec, segments[k].end_sec>>]

\* C36: on every ledger without UNKNOWN the pipeline of generate_clips
\* (parse, pair, convert) and that of core (parse, pair) agree: both reject
\* the ledger or both accept it, and when they accept they make the same
\* list of (pair_index, start_sec, end_sec).
C36_PipelinesAgree ==
    (NoUnknown /\ GuiDecided /\ CliDecided) =>
        /\ FailedValidating(gui) <=> FailedValidating(cli)
        /\ gui.pc = "error" /\ FailedValidating(gui) => cli.pc = "exit1"
        /\ (gui.pc = "built" /\ cli.pc = "converted") =>
              /\ gui.segments # <<>>
              /\ Triples(gui.segments) = Triples(cli.segments)

\* Both pipelines accepted a ledger of two pairs, 5 to 1:10 twice.
C36_Witness ==
    /\ NoUnknown
    /\ gui.pc = "built" /\ cli.pc = "converted"
    /\ Triples(cli.segments) = << <<1, 5 * MsPerSec, 70 * MsPerSec>>,
                                  <<2, 5 * MsPerSec, 70 * MsPerSec>> >>

\* ------------------------------------------------------ gui_app.py
\* The window of the GUI after on_open_video has loaded a video and its
\* segments.  Seconds are in milliseconds; a slider position is turned into
\* a time to the millisecond.
SLIDER_MAX == 1000

COARSE_DELTA_SECONDS == MsPerSec

FINE_DELTA_SECONDS == MsPerSec \div 10

\* The 0.05 s the handlers keep between start and end.
MinClipSec == MsPerSec \div 20

\* The 30 s shown around a clip, and the 60 s and 1 s of the other window.
WindowMarginSec == 30 * MsPerSec

WindowSpanSec == 60 * MsPerSec

Max2(a, b) == IF a >= b THEN a ELSE b

Min2(a, b) == IF a <= b THEN a ELSE b

\* Events of the user or the media player handled in a run.
MaxGuiEvents == 4

\* A ClipSegment as the window uses it.
GuiSegment(index, start_sec, end_sec) ==
    [index |-> index, start_sec |-> start_sec, end_sec |-> end_sec]

\* The segment lists loaded: two clips a minute long, the second past the
\* end of a short video; clips at the start of the video; a clip of 10 ms.
GuiSegmentLists ==
    { << GuiSegment(1, 5 * MsPerSec, 70 * MsPerSec),
         GuiSegment(2, 100 * MsPerSec, 110 * MsPerSec) >>,
      << GuiSegment(1, 0, 2 * MsPerSec), GuiSegment(2, 3 * MsPerSec, 4 * MsPerSec) >>,
      << GuiSegment(1, 5 * MsPerSec, 5 * MsPerSec + 10) >> }

\* What durationChanged reports: nothing yet, a video shorter than the
\* marks, a video that holds them.
GuiDurations == {0, 50 * MsPerSec, 200 * MsPerSec}

\* Positions the user leaves a slider at.
SliderValues == {0, SLIDER_MAX \div 2, SLIDER_MAX}

AdjustDeltas ==
    {-COARSE_DELTA_SECONDS, COARSE_DELTA_SECONDS, -FINE_DELTA_SECONDS, FINE_DELTA_SECONDS}

\* _recompute_window_range: <<window_start_sec, window_end_sec>>.
WindowOf(ws, we, duration_sec, seg) ==
    IF we <= ws
    THEN << Max2(0, Min2(duration_sec, seg.end_sec + MsPerSec) - WindowSpanSec),
            Min2(duration_sec, seg.end_sec + MsPerSec) >>
    ELSE <<ws, we>>

DurationSec(video_duration_ms, seg) ==
    IF video_duration_ms > 0 THEN video_duration_ms
    ELSE Max2(seg.end_sec, seg.start_sec + MsPerSec)

_recompute_window_range(seg, video_duration_ms) ==
    WindowOf(Max2(0, seg.start_sec - WindowMarginSec),
             Min2(DurationSec(video_duration_ms, seg), seg.end_sec + WindowMarginSec),
             DurationSec(video_duration_ms, seg), seg)

\* int(ratio * SLIDER_MAX) with the ratio clamped to [0, 1].
SliderOfSec(sec, ws, we) ==
    IF sec <= ws THEN 0
    ELSE IF sec >= we THEN SLIDER_MAX
    ELSE ((sec - ws) * SLIDER_MAX) \div (we - ws)

\* _update_boundary_sliders: <<start_slider, end_slider>>.
_update_boundary_sliders(seg, ws, we) ==
    IF we <= ws THEN <<0, SLIDER_MAX>>
    ELSE <<SliderOfSec(seg.start_sec, ws, we), SliderOfSec(seg.end_sec, ws, we)>>

_slider_value_to_sec(value, ws, we) ==
    IF we <= ws THEN ws ELSE ws + (value * (we - ws)) \div SLIDER_MAX

\* Mutant: the end is not held above the start.
ClampEnd_NoFloor(new_end, seg, video_duration_ms, we) ==
    Min2(IF video_duration_ms > 0 THEN Min2(new_end, video_duration_ms) ELSE new_end, we)

\* The clamps of a new end: the video's length, start + 0.05, and last the
\* right edge of the window.
ClampEnd(new_end, seg, video_duration_ms, we) ==
    Min2(Max2(IF video_duration_ms > 0 THEN Min2(new_end, video_duration_ms) ELSE new_end,
              seg.start_sec + MinClipSec),
         we)

\* The clamps of a new start: 0, and end - 0.05.
ClampStart(new_start, seg) == Min2(Max2(0, new_start), seg.end_sec - MinClipSec)

\* The window with segments loaded, right after on_open_video.
GuiWindow(segments) ==
    [pc |-> "open", segments |-> segments, current_index |-> 1, active_target |-> "start",
     video_duration_ms |-> 0,
     window_start_sec |-> _recompute_window_range(segments[1], 0)[1],
     window_end_sec |-> _recompute_window_range(segments[1], 0)[2],
     start_slider |-> 0, end_slider |-> 0,
     start_enabled |-> TRUE, end_enabled |-> TRUE, handled |-> 0]

\* The sliders set from the window and the current clip.
WithSliders(g, sliders) ==
    [g EXCEPT !.start_slider = sliders[1], !.end_slider = sliders[2]]

Refreshed(g) ==
    WithSliders(g, _update_boundary_sliders(g.segments[g.current_index],
                                            g.window_start_sec, g.window_end_sec))

\* _recompute_window_range and _update_boundary_sliders for the current clip.
WithWindow(g, window) ==
    Refreshed([g EXCEPT !.window_start_sec = window[1], !.window_end_sec = window[2]])

Recomputed(g) ==
    WithWindow(g, _recompute_window_range(g.segments[g.current_index], g.video_duration_ms))

InitGui ==
    /\ ledger = [r \in Recordings |-> <<>>]
    /\ line_counts = [r \in Recordings |-> NoneCount]
    /\ ev = [e \in Events |-> EvNew]
    /\ listener_running = TRUE
    /\ marks_file = <<>>
    /\ \E segments \in GuiSegmentLists : gui = Refreshed(GuiWindow(segments))
    /\ cli = CliIdle
    /\ call = NoCall

\* One more event is handled.
Handles(g) == [g EXCEPT !.handled = @ + 1]

GuiReady == gui.pc = "open" /\ gui.handled < MaxGuiEvents

\* on_clip_selection_changed: another row of the list is selected.
on_clip_selection_changed(row) ==
    /\ GuiReady
    /\ row \in 1..Len(gui.segments)
    /\ row # gui.current_index
    /\ gui' = Handles(Recomputed([gui EXCEPT !.current_index = row]))
    /\ UNCHANGED <<mvars, marks_file, cli, call>>

\* on_toggle_active_target, with _update_active_target_ui.
on_toggle_active_target ==
    /\ GuiReady
    /\ gui' = Handles([gui EXCEPT
                !.active_target = IF @ = "start" THEN "end" ELSE "start",
                !.start_enabled = (gui.active_target # "start"),
                !.end_enabled = (gui.active_target = "start")])
    /\ UNCHANGED <<mvars, marks_file, cli, call>>

\* The user moves the green slider to value: on_start_slider_changed.
on_start_slider_changed(value) ==
    /\ GuiReady
    /\ gui.start_enabled
    /\ value # gui.start_slider
    /\ gui' = Handles(
          IF gui.active_target # "start" THEN [gui EXCEPT !.start_slider = value]
          ELSE [gui EXCEPT !.start_slider = value,
                   !.segments[gui.current_index].start_sec =
                       ClampStart(_slider_value_to_sec(value, gui.window_start_sec,
                                                       gui.window_end_sec),
                                  gui.segments[gui.current_index])])
    /\ UNCHANGED <<mvars, marks_file, cli, call>>

\* Mutant: the red slider's handler does not look at active_target.
on_end_slider_changed_AnyTarget(value) ==
    /\ GuiReady
    /\ gui.end_enabled
    /\ value # gui.end_slider
    /\ gui' = Handles(
          [gui EXCEPT !.end_slider = value,
              !.segments[gui.current_index].end_sec =
                  ClampEnd(_slider_value_to_sec(value, gui.window_start_sec,
                                                gui.window_end_sec),
                           gui.segments[gui.current_index],
                           gui.video_duration_ms, gui.window_end_sec)])
    /\ UNCHANGED <<mvars, marks_file, cli, call>>

\* The user moves the red slider to value: on_end_slider_changed.
on_end_slider_changed(value) ==
    /\ GuiReady
    /\ gui.end_enabled
    /\ value # gui.end_slider
    /\ gui' = Handles(
          IF gui.active_target # "end" THEN [gui EXCEPT !.end_slider = value]
          ELSE [gui EXCEPT !.end_slider = value,
                   !.segments[gui.current_index].end_sec =
                       ClampEnd(_slider_value_to_sec(value, gui.window_start_sec,
                                                     gui.window_end_sec),
                                gui.segments[gui.current_index],
                                gui.video_duration_ms, gui.window_end_sec)])
    /\ UNCHANGED <<mvars, marks_file, cli, call>>

\* on_adjust_clicked: the boundary of active_target moves by delta_seconds
\* from where its slider stands; the sliders are set again.
on_adjust_clicked(delta_seconds) ==
    /\ GuiReady
    /\ gui' = Handles(Refreshed(
          IF gui.active_target = "start"
          THEN [gui EXCEPT !.segments[gui.current_index].start_sec =
                   ClampStart(_slider_value_to_sec(gui.start_slider, gui.window_start_sec,
                                                   gui.window_end_sec) + delta_seconds,
                              gui.segments[gui.current_index])]
          ELSE [gui EXCEPT !.segments[gui.current_index].end_sec =
                   ClampEnd(_slider_value_to_sec(gui.end_slider, gui.window_start_sec,
                                                 gui.window_end_sec) + delta_seconds,
                            gui.segments[gui.current_index],
                            gui.video_duration_ms, gui.window_end_sec)]))
    /\ UNCHANGED <<mvars, marks_file, cli, call>>

\* _on_duration_changed: the media player reports the length of the video.
_on_duration_changed(duration_ms) ==
    /\ GuiReady
    /\ duration_ms # gui.video_duration_ms
    /\ gui' = Handles(Recomputed([gui EXCEPT !.video_duration_ms = duration_ms]))
    /\ UNCHANGED <<mvars, marks_file, cli, call>>

NextGui ==
    \/ \E row \in 1..2 : on_clip_selection_changed(row)
    \/ on_toggle_active_target
    \/ \E value \in SliderValues : on_start_slider_changed(value)
    \/ \E value \in SliderValues : on_end_slider_changed(value)
    \/ \E delta_seconds \in AdjustDeltas : on_adjust_clicked(delta_seconds)
    \/ \E duration_ms \in GuiDurations : _on_duration_changed(duration_ms)

SpecGui == InitGui /\ [][NextGui]_vars

\* ------------------------------------------------------ the boundary edited
GuiOpen == gui.pc = "open"

\* Segment k is as it was before the step.
SegmentKept(k) == gui'.segments[k] = gui.segments[k]

\* C32: in the GUI a slider or adjust event changes only the boundary that
\* active_target selects, of the selected segment: while active_target is
\* "start" no end_sec changes, while it is "end" no start_sec changes, and
\* no other segment changes.
C32_Step ==
    GuiOpen =>
        \A k \in 1..Len(gui.segments) :
            /\ k # gui.current_index => SegmentKept(k)
            /\ gui.active_target = "start" =>
                   gui'.segments[k].end_sec = gui.segments[k].end_sec
            /\ gui.active_target = "end" =>
                   gui'.segments[k].start_sec = gui.segments[k].start_sec

C32_OnlyActiveBoundary == [][C32_Step]_vars

\* The end of the second clip has been moved, and nothing else.
C32_Witness ==
    /\ GuiOpen
    /\ Len(gui.segments) = 2
    /\ gui.current_index = 2
    /\ gui.active_target = "end"
    /\ gui.segments[1] = GuiSegment(1, 5 * MsPerSec, 70 * MsPerSec)
    /\ gui.segments[2].start_sec = 100 * MsPerSec
    /\ gui.segments[2].end_sec # 110 * MsPerSec

\* ------------------------------------------------------ the shortest clip
\* Segment k of g is at least 0.05 s long.
LongEnough(g, k) == g.segments[k].start_sec + MinClipSec <= g.segments[k].end_sec

\* The window ends before start + 0.05 of the clip whose end is edited.
WindowTooShort(k) ==
    /\ gui.active_target = "end"
    /\ k = gui.current_index
    /\ gui.window_end_sec < gui.segments[k].start_sec + MinClipSec

\* C35 as stated: a segment that is 0.05 s long stays 0.05 s long through
\* every clip selection, duration change, slider change and adjust click,
\* whatever the video's duration and the adjustment window.
C35_Step ==
    GuiOpen =>
        \A k \in 1..Len(gui.segments) : LongEnough(gui, k) => LongEnough(gui', k)

C35_MinLengthKept == [][C35_Step]_vars

\* C35: a segment that is 0.05 s long stays 0.05 s long through every event,
\* except when its end is edited while the adjustment window ends before its
\* start + 0.05; the end is then at most the window's end.
C35_StepInWindow ==
    GuiOpen =>
        \A k \in 1..Len(gui.segments) :
            /\ (LongEnough(gui, k) /\ ~WindowTooShort(k)) => LongEnough(gui', k)
            /\ (WindowTooShort(k) /\ ~SegmentKept(k)) =>
                   gui'.segments[k].end_sec = gui.window_end_sec

C35_MinLengthKeptInWindow == [][C35_StepInWindow]_vars

\* The video is shorter than the marks of the second clip, and the clip now
\* ends at the video's end, before its own start.
C35_EndBeforeStart ==
    /\ GuiOpen
    /\ Len(gui.segments) = 2
    /\ gui.video_duration_ms = 50 * MsPerSec
    /\ gui.segments[2].start_sec = 100 * MsPerSec
    /\ gui.segments[2].end_sec = gui.video_duration_ms

====
